---- MODULE Spec2Model ----
(***************************************************************************)
(* Request-execution core of the HubSpot API client (package client).      *)
(*                                                                         *)
(* The module models Client.Do and the middleware chain it builds          *)
(* (auth, rate limit, retry, HTTP transport), the error classifier         *)
(* (ParseHubSpotError, isRetryableStatus), the rate-limit header           *)
(* extraction, the rate limiter and calculateBackoffDuration.              *)
(*                                                                         *)
(* Durations are Go time.Duration values (int64 nanoseconds in the code).  *)
(* TLC's integers are 32 bits wide, so the model keeps the wrap-around     *)
(* arithmetic of the code at a reduced width of DurBits bits, counted in   *)
(* ticks, with Second ticks to the second.                                 *)
(***************************************************************************)
EXTENDS Integers, Sequences, FiniteSets, TLC

VARIABLES
    config,        \* Client.config (Config)
    rateLimiter,   \* Client.rateLimiter: tokens of the interval bucket, dailyLimit, dailyRemaining
    ctx,           \* the caller's context: "active" or "canceled"
    req,           \* the Request of the call in flight
    depth,         \* index into buildChain of the handler that is running (0: outside the chain)
    phase,         \* position of the call inside the running handler
    attempt,       \* wrapRetryMiddleware: loop variable attempt
    lastResp,      \* wrapRetryMiddleware: lastResp
    lastErr,       \* wrapRetryMiddleware: lastErr
    resp,          \* the *Response last returned by a handler (Do's result when phase = "done")
    err,           \* the error last returned by a handler (Do's result when phase = "done")
    backoff,       \* the duration the retry loop is waiting
    obs,           \* per-call counters of what has happened so far
    order,         \* the handlers of the chain in the order they were first entered
    innerLog,      \* what the handler wrapped by the retry loop returned, one entry per invocation
    wire,          \* the headers of the requests put on the wire, one entry per round trip
    fin,           \* inputs of the pure function under check (specifications of pure functions)
    fout,          \* its result
    limiters,      \* concurrent calls: the RateLimiter of every client instance (fields and mu)
    pc,            \* concurrent calls: where each call is inside wrapRateLimitMiddleware
    got,           \* concurrent calls: the *Response each call got from next(req)
    via            \* concurrent calls: the client instance each call is made through

vars == << config, rateLimiter, ctx, req, depth, phase, attempt, lastResp, lastErr,
           resp, err, backoff, obs, order, innerLog, wire, fin, fout,
           limiters, pc, got, via >>

callVars == << req, depth, phase, attempt, lastResp, lastErr, resp, err, backoff,
               obs, order, innerLog, wire >>

\* the variables of the concurrent calls
limVars == << limiters, pc, got, via >>

\* the variables a single call through the chain leaves alone
pureVars == << fin, fout, limVars >>

-----------------------------------------------------------------------------
(* Bounds of the model *)

\* width in bits of a Duration / of an int in the model
DurBits == 20

\* ticks in one second (time.Second)
Second == 100

\* largest Retry.MaxAttempts explored
MaxAttemptsBound == 3

\* largest RateLimit.MaxBurst explored
MaxBurstBound == 1

\* number of calls that run concurrently
NumCalls == 3

\* largest attempt index handed to calculateBackoffDuration on its own
MaxBackoffAttempt == 13

\* longest header value handed to strconv.Atoi
MaxHeaderLen == 2

MinDur == -(2 ^ (DurBits - 1))
MaxDur == (2 ^ (DurBits - 1)) - 1

\* two's complement wrap-around of the result of an integer operation
Wrap(x) == ((x + 2 ^ (DurBits - 1)) % (2 ^ DurBits)) - 2 ^ (DurBits - 1)

\* Go's integer division truncates toward zero
TruncDiv(a, b) == IF a >= 0 THEN a \div b ELSE -((-a) \div b)

-----------------------------------------------------------------------------
(* Values *)

NilResp == [nil |-> TRUE]
NilErr == [kind |-> "nil"]

\* context.Canceled, as returned by ctx.Err()
CtxErr == [kind |-> "context", cause |-> "canceled"]

\* fmt.Errorf("...: %w", err) of the transport; cause names the failing step
TransportErr(cause) == [kind |-> "transport", cause |-> cause]

\* the error of rate.Limiter.Wait when n exceeds the burst
BurstErr == [kind |-> "rate", cause |-> "burst"]

IsHubSpotError(e) == e.kind = "hubspot"

\* errors.Is(e, context.Canceled): the context's own error or one that wraps it
IsCancellation(e) ==
    \/ e.kind = "context"
    \/ e.kind = "transport" /\ e.cause = "canceled"

-----------------------------------------------------------------------------
(* strconv.Atoi on a header value, a sequence of characters *)

Digits == << "0", "1", "2", "3", "4", "5", "6", "7", "8", "9" >>

IsDigit(c) == \E i \in 1..10 : Digits[i] = c

DigitVal(c) == (CHOOSE i \in 1..10 : Digits[i] = c) - 1

RECURSIVE DigitsValue(_)
DigitsValue(s) ==
    IF s = << >> THEN 0
    ELSE 10 * DigitsValue(SubSeq(s, 1, Len(s) - 1)) + DigitVal(s[Len(s)])

\* result of strconv.Atoi: ok is FALSE on a syntax or range error
Atoi(s) ==
    LET signed == s # << >> /\ s[1] \in {"+", "-"}
        body == IF signed THEN Tail(s) ELSE s
        allDigits == body # << >> /\ \A i \in 1..Len(body) : IsDigit(body[i])
        mag == IF allDigits THEN DigitsValue(body) ELSE 0
        val == IF signed /\ s[1] = "-" THEN -mag ELSE mag
    IN  IF allDigits /\ val >= MinDur /\ val <= MaxDur
        THEN [ok |-> TRUE, val |-> val]
        ELSE [ok |-> FALSE, val |-> 0]

\* time.Parse(time.RFC1123, s): a date is written "@" followed by the digits of
\* its instant in seconds
ParseRFC1123(s) ==
    LET body == IF s = << >> THEN << >> ELSE Tail(s)
        good == /\ s # << >>
                /\ s[1] = "@"
                /\ body # << >>
                /\ \A i \in 1..Len(body) : IsDigit(body[i])
    IN  IF good THEN [ok |-> TRUE, val |-> DigitsValue(body)]
        ELSE [ok |-> FALSE, val |-> 0]

-----------------------------------------------------------------------------
(* errors.go *)

HeaderNames == { "Retry-After",
                 "X-HubSpot-RateLimit-Max",
                 "X-HubSpot-RateLimit-Remaining",
                 "X-HubSpot-RateLimit-Interval-Milliseconds",
                 "X-HubSpot-RateLimit-Daily",
                 "X-HubSpot-RateLimit-Daily-Remaining" }

NoHeaders == [h \in HeaderNames |-> << >>]

\* http.Header.Get: the empty string when the header is absent
Get(headers, name) == headers[name]

isRetryableStatusNoDaily(statusCode, policyName) ==
    statusCode \in {429, 500, 502, 503, 504}

isRetryableStatus(statusCode, policyName) ==
    CASE statusCode = 429 -> policyName # "DAILY"
      [] statusCode \in {500, 502, 503, 504} -> TRUE
      [] OTHER -> FALSE

\* the wait hint read from the Retry-After header; now is time.Now() in seconds
RetryAfterOf(headers, now) ==
    LET retryAfter == Get(headers, "Retry-After")
        seconds == Atoi(retryAfter)
        t == ParseRFC1123(retryAfter)
    IN  IF retryAfter = << >> THEN 0
        ELSE IF seconds.ok THEN Wrap(seconds.val * Second)
        ELSE IF t.ok THEN Wrap((t.val - now) * Second)
        ELSE 0

\* body: the response body, a JSON object when body.valid and anything else otherwise
ParseHubSpotError(statusCode, body, headers, now) ==
    LET policyName == IF body.valid THEN body.policyName ELSE ""
    IN  [ kind        |-> "hubspot",
          Status      |-> statusCode,
          RawBody     |-> body,
          RetryAfter  |-> RetryAfterOf(headers, now),
          Message     |-> IF body.valid THEN body.message ELSE "",
          Category    |-> IF body.valid THEN body.category ELSE "",
          PolicyName  |-> policyName,
          IsRetryable |-> isRetryableStatus(statusCode, policyName) ]

\* one integer field of ExtractRateLimitInfo: the header's value when it parses
HeaderInt(headers, name, default) ==
    LET str == Get(headers, name)
        v == Atoi(str)
    IN  IF str # << >> /\ v.ok THEN v.val ELSE default

ExtractRateLimitInfoNoDefault(headers) ==
    [ Max            |-> HeaderInt(headers, "X-HubSpot-RateLimit-Max", 0),
      Remaining      |-> HeaderInt(headers, "X-HubSpot-RateLimit-Remaining", 0),
      IntervalMs     |-> HeaderInt(headers, "X-HubSpot-RateLimit-Interval-Milliseconds", 0),
      DailyLimit     |-> HeaderInt(headers, "X-HubSpot-RateLimit-Daily", 0),
      DailyRemaining |-> HeaderInt(headers, "X-HubSpot-RateLimit-Daily-Remaining", 0) ]

ExtractRateLimitInfo(headers) ==
    [ Max            |-> HeaderInt(headers, "X-HubSpot-RateLimit-Max", 0),
      Remaining      |-> HeaderInt(headers, "X-HubSpot-RateLimit-Remaining", 0),
      IntervalMs     |-> HeaderInt(headers, "X-HubSpot-RateLimit-Interval-Milliseconds", 10000),
      DailyLimit     |-> HeaderInt(headers, "X-HubSpot-RateLimit-Daily", 0),
      DailyRemaining |-> HeaderInt(headers, "X-HubSpot-RateLimit-Daily-Remaining", 0) ]

-----------------------------------------------------------------------------
(* client.go: calculateBackoffDuration *)

\* (a * b) modulo 2^DurBits for a, b in 0..2^DurBits-1, without leaving TLC's integers
RECURSIVE MulMod(_, _)
MulMod(a, b) ==
    IF b = 0 THEN 0
    ELSE (MulMod((2 * a) % (2 ^ DurBits), b \div 2) + (IF b % 2 = 1 THEN a ELSE 0))
             % (2 ^ DurBits)

\* the product of two Durations as the code computes it, wrapping around
MulWrap(a, b) == Wrap(MulMod(a % (2 ^ DurBits), b % (2 ^ DurBits)))

\* time.Duration(math.Pow(2, float64(attempt))): exact while it fits; the
\* conversion of a float64 that does not fit is implementation-specific in Go
\* (the smallest integer on amd64, the largest on arm64)
Pow2Duration(a) ==
    IF a < DurBits - 1 THEN {2 ^ a} ELSE {MinDur, MaxDur}

\* the values of rand.Int63n(n) the model draws, for n > 0: both ends and the middle
JitterSamples(n) == {0, n \div 2, n - 1}

Outcome(d) == [panic |-> FALSE, d |-> d]
Panic == [panic |-> TRUE, d |-> 0]

CapAt(b, max) == IF b > max THEN max ELSE b

\* as calculateBackoffDuration, without the early return on a wait hint
calculateBackoffDurationNoHint(a, retryAfter, cfg) ==
    UNION { LET b0 == MulWrap(p, cfg.InitialBackoff)
                n == TruncDiv(b0, 10)
            IN  IF n <= 0 THEN {Panic}
                ELSE { Outcome(CapAt(Wrap(b0 + sign * j), cfg.MaxBackoff)) :
                           j \in JitterSamples(n), sign \in {1, -1} }
          : p \in Pow2Duration(a) }

\* the set of results of calculateBackoffDuration(attempt, retryAfter, cfg):
\* a duration, or the panic of rand.Int63n on an argument <= 0
calculateBackoffDuration(a, retryAfter, cfg) ==
    IF retryAfter > 0 THEN {Outcome(retryAfter)}
    ELSE UNION { LET b0 == MulWrap(p, cfg.InitialBackoff)
                     n == TruncDiv(b0, 10)
                 IN  IF n <= 0 THEN {Panic}
                     ELSE { Outcome(CapAt(Wrap(b0 + sign * j), cfg.MaxBackoff)) :
                                j \in JitterSamples(n), sign \in {1, -1} }
               : p \in Pow2Duration(a) }

-----------------------------------------------------------------------------
(* Specification of calculateBackoffDuration on its own *)

BackoffAttempts == 0..MaxBackoffAttempt
BackoffHints == {-Second, 0, 1, 5 * Second, 60 * Second}
BackoffInitials == {0, 5, 10, Second, 2 * Second}
BackoffMaxima == {0, Second \div 2, 30 * Second}

BackoffInputs ==
    [ fn : {"calculateBackoffDuration"},
      attempt : BackoffAttempts,
      retryAfter : BackoffHints,
      cfg : [InitialBackoff : BackoffInitials, MaxBackoff : BackoffMaxima] ]

NoInput == [fn |-> "none"]
Pending == [status |-> "pending"]

-----------------------------------------------------------------------------
(* Configuration and construction *)

AccessTokens == {"", "tok"}

\* Retry.InitialBackoff and Retry.MaxBackoff of the clients explored
InitialBackoffs == {0, 20}
MaxBackoffs == {30}

Configs ==
    [ AccessToken : AccessTokens,
      RateLimit : [MaxBurst : 0..MaxBurstBound, DailyLimit : {250000}, Enabled : BOOLEAN],
      Retry : [ MaxAttempts : 0..MaxAttemptsBound,
                InitialBackoff : InitialBackoffs,
                MaxBackoff : MaxBackoffs,
                Enabled : BOOLEAN ] ]

\* NewConfig, with the durations in ticks
NewConfig ==
    [ AccessToken |-> "",
      RateLimit |-> [MaxBurst |-> 100, DailyLimit |-> 250000, Enabled |-> TRUE],
      Retry |-> [ MaxAttempts |-> 3,
                  InitialBackoff |-> Second,
                  MaxBackoff |-> 30 * Second,
                  Enabled |-> TRUE ] ]

\* NewRateLimiter: a full bucket of maxBurst tokens and the default daily quota
NewRateLimiter(maxBurst) ==
    [ tokens |-> maxBurst,
      burst |-> maxBurst,
      dailyLimit |-> 250000,
      dailyRemaining |-> 250000 ]

CheckDailyLimitOffByOne(rl) == rl.dailyRemaining >= 0

CheckDailyLimit(rl) == rl.dailyRemaining > 0

UpdateFromResponseKeepsOnZero(rl, r) ==
    IF r.RateLimit.DailyLimit = 0 /\ r.RateLimit.DailyRemaining = 0 THEN rl
    ELSE [rl EXCEPT !.dailyRemaining = r.RateLimit.DailyRemaining,
                    !.dailyLimit = r.RateLimit.DailyLimit]

UpdateFromResponse(rl, r) ==
    [rl EXCEPT !.dailyRemaining = r.RateLimit.DailyRemaining,
               !.dailyLimit = r.RateLimit.DailyLimit]

\* the error of the daily gate in wrapRateLimitMiddleware
DailyLimitErr ==
    [ kind        |-> "hubspot",
      Status      |-> 429,
      RawBody     |-> "",
      RetryAfter  |-> 0,
      Message     |-> "Daily API limit exceeded",
      Category    |-> "",
      PolicyName  |-> "DAILY",
      IsRetryable |-> FALSE ]

-----------------------------------------------------------------------------
(* Requests and the server's answers *)

\* keys of Request.Headers (a Go map: keys are case-sensitive)
HeaderKeys == {"Authorization", "authorization", "Content-Type"}

\* a header value is a sequence of words; the empty sequence: the key is absent
NoReqHeaders == [k \in HeaderKeys |-> << >>]

\* the headers a caller attaches before the call
CallerHeaders ==
    { NoReqHeaders,
      [NoReqHeaders EXCEPT !["Authorization"] = << "caller" >>],
      [NoReqHeaders EXCEPT !["authorization"] = << "caller" >>] }

\* Request.Body: none, one that marshals, one json.Marshal rejects
Bodies == {"none", "ok", "unmarshalable"}

\* Request.Method: a valid one and one http.NewRequestWithContext rejects
Methods == {"GET", "BAD METHOD"}

\* NewRequest and the With.../Add... builders
Requests ==
    [ Method : Methods, Body : Bodies, Headers : CallerHeaders, RetryCount : {0} ]

\* fmt.Sprintf("Bearer %s", token)
Bearer(token) == << "Bearer", token >>

\* textproto.CanonicalMIMEHeaderKey on the keys of the model
Canonical(k) == IF k = "authorization" THEN "Authorization" ELSE k

WireKeys == {"Authorization", "Content-Type", "User-Agent"}

\* httpReq.Header after the loop over req.Headers (a map, iterated in any
\* order) and the User-Agent: for each canonical key one of the values set for it
WireHeaders(headers) ==
    { w \in [WireKeys -> { << >>, << "caller" >>, << "application/json" >>,
                           << "go-hubspot-sdk/1.0" >> } \cup {Bearer(t) : t \in AccessTokens}] :
        /\ w["User-Agent"] = << "go-hubspot-sdk/1.0" >>
        /\ \A c \in WireKeys \ {"User-Agent"} :
              LET set == { headers[k] :
                             k \in {x \in HeaderKeys : Canonical(x) = c /\ headers[x] # << >>} }
              IN  IF set = {} THEN w[c] = << >> ELSE w[c] \in set }

NoWire == [sent |-> FALSE]

JsonBody(message, category, policyName) ==
    [valid |-> TRUE, message |-> message, category |-> category, policyName |-> policyName]

NotJson == [valid |-> FALSE, message |-> "?", category |-> "?", policyName |-> "?"]

DailyHeaders(limit, remaining) ==
    [NoHeaders EXCEPT !["X-HubSpot-RateLimit-Daily"] = limit,
                      !["X-HubSpot-RateLimit-Daily-Remaining"] = remaining]

\* the answers of the server the pipeline is run against
ServerResponses ==
    { [status |-> 200, body |-> JsonBody("", "", ""), headers |-> DailyHeaders(<<"5">>, <<"4">>)],
      [status |-> 200, body |-> JsonBody("", "", ""), headers |-> NoHeaders],
      [status |-> 399, body |-> NotJson, headers |-> DailyHeaders(<<"5">>, <<"4">>)],
      [status |-> 400, body |-> JsonBody("Bad request", "VALIDATION_ERROR", ""),
       headers |-> DailyHeaders(<<"5">>, <<"4">>)],
      [status |-> 429, body |-> JsonBody("Rate limit exceeded", "RATE_LIMITS", "DAILY"),
       headers |-> DailyHeaders(<<"5">>, <<"-", "1">>)],
      [status |-> 429, body |-> JsonBody("Rate limit exceeded", "RATE_LIMITS", "TEN_SECONDLY_ROLLING"),
       headers |-> [DailyHeaders(<<"5">>, <<"4">>) EXCEPT !["Retry-After"] = <<"1">>]],
      [status |-> 500, body |-> NotJson, headers |-> DailyHeaders(<<"5">>, <<"4">>)] }

\* time.Now() in seconds, as read by ParseHubSpotError
Nows == {0}

\* NewResponse followed by the assignment of RateLimit in httpMiddleware
NewResponse(statusCode, body, headers) ==
    [ nil |-> FALSE,
      StatusCode |-> statusCode,
      Body |-> body,
      RateLimit |-> ExtractRateLimitInfo(headers),
      HubSpotError |-> NilErr ]

\* the (resp, err) pair httpMiddleware returns for an answer that was read in full
httpResultAlwaysNil(sr, now) ==
    [resp |-> NewResponse(sr.status, sr.body, sr.headers), err |-> NilErr]

httpResult(sr, now) ==
    LET r == NewResponse(sr.status, sr.body, sr.headers)
    IN  IF sr.status >= 400
        THEN LET e == ParseHubSpotError(sr.status, sr.body, sr.headers, now)
             IN  [resp |-> [r EXCEPT !.HubSpotError = e], err |-> e]
        ELSE [resp |-> r, err |-> NilErr]

-----------------------------------------------------------------------------
(* Client instances and the calls that run concurrently through them *)

\* two client instances, each made by its own NewClient call
Clients == {"a", "b"}

Calls == 1..NumCalls

LimiterOfSingleton(p) == "a"

\* c.rateLimiter of the client call p is made through: NewClient gives every
\* client a limiter of its own
LimiterOf(p) == via[p]

\* sync.RWMutex: the readers holding it, the writer holding it, the writer that
\* has announced itself and waits for the readers to leave (it holds the
\* writers' mutex), the readers blocked by a writer, the writers queued behind
NewRWMutex ==
    [readers |-> {}, writer |-> 0, pending |-> 0, rwait |-> {}, wq |-> << >>]

\* NewClient: NewRateLimiter(cfg.RateLimit.MaxBurst) with its zero-valued mu
NewLimiter(maxBurst) == [rl |-> NewRateLimiter(maxBurst), mu |-> NewRWMutex]

\* the RateLimitInfo of the responses the concurrent calls receive
LimiterResponses ==
    { [nil |-> FALSE, RateLimit |-> [DailyLimit |-> 5, DailyRemaining |-> 4]],
      [nil |-> FALSE, RateLimit |-> [DailyLimit |-> 7, DailyRemaining |-> 0]] }

\* every client is constructed and no call is running
InitLimiters ==
    /\ limiters = [c \in Clients |-> NewLimiter(1)]
    /\ pc = [p \in Calls |-> "idle"]
    /\ got = [p \in Calls |-> NilResp]
    /\ via = [p \in Calls |-> "a"]

-----------------------------------------------------------------------------
(* The middleware chain *)

\* buildChain: the handlers from the outermost to the innermost
buildChainAuthInside == << "ratelimit", "auth", "retry", "http" >>

buildChainRetryOutside == << "auth", "retry", "ratelimit", "http" >>

buildChain == << "auth", "ratelimit", "retry", "http" >>

\* the handler that is running
Stage == IF depth \in 1..Len(buildChain) THEN buildChain[depth] ELSE "none"

Range(seq) == {seq[i] : i \in 1..Len(seq)}

\* next(req): control passes to the handler the running one wraps
CallNext ==
    /\ depth' = depth + 1
    /\ phase' = "call"
    /\ UNCHANGED << resp, err >>

\* return r, e: control passes back to the wrapping handler, or out of Do
Return(r, e) ==
    /\ resp' = r
    /\ err' = e
    /\ IF depth = 1
       THEN depth' = 0 /\ phase' = "done"
       ELSE depth' = depth - 1 /\ phase' = "ret"

Enter(stage) ==
    order' = IF stage \in Range(order) THEN order ELSE Append(order, stage)

NoObs ==
    [ httpCalls |-> 0,        \* invocations of the handler of httpMiddleware
      roundTrips |-> 0,       \* requests that reached the server
      dailyChecks |-> 0,      \* CheckDailyLimit calls
      admitted |-> 0,         \* admissions granted: daily gate passed and token acquired
      waits |-> 0,            \* backoff waits begun
      updates |-> 0,          \* UpdateFromResponse calls
      cancelledAtDo |-> FALSE,  \* the context was cancelled when Do was called
      cancelledAtWait |-> FALSE,  \* the context was cancelled when the last backoff wait began
      dailyAtDo |-> 0         \* rateLimiter.dailyRemaining when Do was called
    ]

Bump(field) == obs' = [obs EXCEPT ![field] = @ + 1]

IdleCall ==
    /\ depth = 0
    /\ phase = "idle"

\* the state of a client right after NewClient, no call made yet
InitClient(cfg) ==
    /\ config = cfg
    /\ rateLimiter = NewRateLimiter(cfg.RateLimit.MaxBurst)
    /\ ctx = "active"
    /\ req = [Method |-> "GET", Body |-> "none", Headers |-> NoReqHeaders, RetryCount |-> 0]
    /\ depth = 0
    /\ phase = "idle"
    /\ attempt = 0
    /\ lastResp = NilResp
    /\ lastErr = NilErr
    /\ resp = NilResp
    /\ err = NilErr
    /\ backoff = 0
    /\ obs = NoObs
    /\ order = << >>
    /\ innerLog = << >>
    /\ wire = NoWire
    /\ InitLimiters

Init ==
    /\ \E cfg \in Configs : InitClient(cfg)
    /\ fin = NoInput
    /\ fout = Pending

\* the caller cancels the context, before the call or while it runs
Cancel ==
    /\ ctx = "active"
    /\ phase \notin {"done", "panic"}
    /\ ctx' = "canceled"
    /\ UNCHANGED << config, rateLimiter, callVars, pureVars >>

\* Client.Do(ctx, req)
Do ==
    /\ phase = "idle"
    /\ \E r \in Requests : req' = r
    /\ depth' = 1
    /\ phase' = "call"
    /\ obs' = [NoObs EXCEPT !.cancelledAtDo = (ctx = "canceled"),
                            !.dailyAtDo = rateLimiter.dailyRemaining]
    /\ UNCHANGED << config, rateLimiter, ctx, attempt, lastResp, lastErr, resp, err,
                    backoff, order, innerLog, wire, pureVars >>

\* wrapAuthMiddleware, up to next(req)
AuthCall ==
    /\ Stage = "auth"
    /\ phase = "call"
    /\ req' = IF config.AccessToken # ""
              THEN [req EXCEPT !.Headers["Authorization"] = Bearer(config.AccessToken)]
              ELSE req
    /\ Enter("auth")
    /\ CallNext
    /\ UNCHANGED << config, rateLimiter, ctx, attempt, lastResp, lastErr, backoff, obs,
                    innerLog, wire, pureVars >>

\* wrapAuthMiddleware: next(req) has returned
AuthRet ==
    /\ Stage = "auth"
    /\ phase = "ret"
    /\ Return(resp, err)
    /\ UNCHANGED << config, rateLimiter, ctx, req, attempt, lastResp, lastErr, backoff,
                    obs, order, innerLog, wire, pureVars >>

\* wrapRateLimitMiddleware, up to the daily gate
RateLimitCall ==
    /\ Stage = "ratelimit"
    /\ phase = "call"
    /\ Enter("ratelimit")
    /\ IF ~config.RateLimit.Enabled
       THEN CallNext /\ UNCHANGED obs
       ELSE /\ Bump("dailyChecks")
            /\ IF ~CheckDailyLimit(rateLimiter)
               THEN Return(NilResp, DailyLimitErr)
               ELSE phase' = "acquire" /\ UNCHANGED << depth, resp, err >>
    /\ UNCHANGED << config, rateLimiter, ctx, req, attempt, lastResp, lastErr, backoff,
                    innerLog, wire, pureVars >>

\* how rateLimiter.Wait(ctx) starts (rate.Limiter.Wait for one token):
\*   "burst"     the burst is below one token: an error at once
\*   "canceled"  the context is already done: ctx.Err()
\*   "granted"   a token is there and is taken
\*   "blocked"   it has to wait for a token
WaitOutcomeNoCtx(rl, c) ==
    IF rl.burst < 1 THEN "burst"
    ELSE IF rl.tokens > 0 THEN "granted"
    ELSE "blocked"

WaitOutcome(rl, c) ==
    IF rl.burst < 1 THEN "burst"
    ELSE IF c = "canceled" THEN "canceled"
    ELSE IF rl.tokens > 0 THEN "granted"
    ELSE "blocked"

\* wrapRateLimitMiddleware: rateLimiter.Wait(req.Context), up to the point where
\* it has to wait for a token
RateLimitAcquire ==
    /\ Stage = "ratelimit"
    /\ phase = "acquire"
    /\ LET outcome == WaitOutcome(rateLimiter, ctx)
       IN  CASE outcome = "burst" ->
                  Return(NilResp, BurstErr) /\ UNCHANGED << rateLimiter, obs >>
             [] outcome = "canceled" ->
                  Return(NilResp, CtxErr) /\ UNCHANGED << rateLimiter, obs >>
             [] outcome = "granted" ->
                  /\ rateLimiter' = [rateLimiter EXCEPT !.tokens = @ - 1]
                  /\ Bump("admitted")
                  /\ CallNext
             [] outcome = "blocked" ->
                  phase' = "blocked" /\ UNCHANGED << rateLimiter, obs, depth, resp, err >>
    /\ UNCHANGED << config, ctx, req, attempt, lastResp, lastErr, backoff, order,
                    innerLog, wire, pureVars >>

RateLimitGrantedNoToken ==
    /\ Stage = "ratelimit"
    /\ phase = "blocked"
    /\ Bump("admitted")
    /\ CallNext
    /\ UNCHANGED << config, rateLimiter, ctx, req, attempt, lastResp, lastErr, backoff,
                    order, innerLog, wire, pureVars >>

RateLimitGrantedCountsDaily ==
    /\ Stage = "ratelimit"
    /\ phase = "blocked"
    /\ rateLimiter.tokens > 0
    /\ rateLimiter' = [rateLimiter EXCEPT !.tokens = @ - 1, !.dailyRemaining = @ - 1]
    /\ Bump("admitted")
    /\ CallNext
    /\ UNCHANGED << config, ctx, req, attempt, lastResp, lastErr, backoff, order,
                    innerLog, wire, pureVars >>

\* rateLimiter.Wait: the token it waited for has arrived
RateLimitGranted ==
    /\ Stage = "ratelimit"
    /\ phase = "blocked"
    /\ rateLimiter.tokens > 0
    /\ rateLimiter' = [rateLimiter EXCEPT !.tokens = @ - 1]
    /\ Bump("admitted")
    /\ CallNext
    /\ UNCHANGED << config, ctx, req, attempt, lastResp, lastErr, backoff, order,
                    innerLog, wire, pureVars >>

\* rateLimiter.Wait: the context is done before the token arrives
RateLimitWaitCancelled ==
    /\ Stage = "ratelimit"
    /\ phase = "blocked"
    /\ ctx = "canceled"
    /\ Return(NilResp, CtxErr)
    /\ UNCHANGED << config, rateLimiter, ctx, req, attempt, lastResp, lastErr, backoff,
                    obs, order, innerLog, wire, pureVars >>

\* the interval bucket gains a token as time passes
Refill ==
    /\ rateLimiter.tokens < rateLimiter.burst
    /\ rateLimiter' = [rateLimiter EXCEPT !.tokens = @ + 1]
    /\ UNCHANGED << config, ctx, callVars, pureVars >>

RateLimitRetAlwaysUpdates ==
    /\ Stage = "ratelimit"
    /\ phase = "ret"
    /\ IF ~resp.nil
       THEN rateLimiter' = UpdateFromResponse(rateLimiter, resp) /\ Bump("updates")
       ELSE UNCHANGED << rateLimiter, obs >>
    /\ Return(resp, err)
    /\ UNCHANGED << config, ctx, req, attempt, lastResp, lastErr, backoff, order,
                    innerLog, wire, pureVars >>

\* wrapRateLimitMiddleware: next(req) has returned
RateLimitRet ==
    /\ Stage = "ratelimit"
    /\ phase = "ret"
    /\ IF config.RateLimit.Enabled /\ ~resp.nil
       THEN rateLimiter' = UpdateFromResponse(rateLimiter, resp) /\ Bump("updates")
       ELSE UNCHANGED << rateLimiter, obs >>
    /\ Return(resp, err)
    /\ UNCHANGED << config, ctx, req, attempt, lastResp, lastErr, backoff, order,
                    innerLog, wire, pureVars >>

\* what the retry loop does with the error of an attempt:
\*   "return"    return resp, err at once
\*   "backoff"   wait, then run the next attempt
\*   "exhausted" leave the loop and return lastResp, lastErr
RetryDecisionRetryAll(e, a, cfg) ==
    IF e.kind = "nil" THEN "return"
    ELSE IF IsHubSpotError(e)
    THEN IF a < cfg.MaxAttempts - 1 THEN "backoff" ELSE "exhausted"
    ELSE "return"

RetryDecisionRetryTransport(e, a, cfg) ==
    IF e.kind = "nil" THEN "return"
    ELSE IF IsHubSpotError(e) /\ ~e.IsRetryable THEN "return"
    ELSE IF a < cfg.MaxAttempts - 1 THEN "backoff" ELSE "exhausted"

RetryDecision(e, a, cfg) ==
    IF e.kind = "nil" THEN "return"
    ELSE IF IsHubSpotError(e)
    THEN IF ~e.IsRetryable THEN "return"
         ELSE IF a < cfg.MaxAttempts - 1 THEN "backoff" ELSE "exhausted"
    ELSE "return"

\* hubspotErr.RetryAfter: the hint of a classified error (the type assertion of
\* the retry loop gives access to it; another error carries none)
RetryAfterHint(e) == IF IsHubSpotError(e) THEN e.RetryAfter ELSE 0

\* wrapRetryMiddleware, up to the first next(req)
RetryCall ==
    /\ Stage = "retry"
    /\ phase = "call"
    /\ Enter("retry")
    /\ IF ~config.Retry.Enabled
       THEN CallNext /\ UNCHANGED << req, attempt, lastResp, lastErr >>
       ELSE /\ attempt' = 0
            /\ lastResp' = NilResp
            /\ lastErr' = NilErr
            /\ IF 0 < config.Retry.MaxAttempts
               THEN req' = [req EXCEPT !.RetryCount = 0] /\ CallNext
               ELSE Return(NilResp, NilErr) /\ UNCHANGED req
    /\ UNCHANGED << config, rateLimiter, ctx, backoff, obs, innerLog, wire, pureVars >>

RetryRetIgnoresEnabled ==
    /\ Stage = "retry"
    /\ phase = "ret"
    /\ innerLog' = Append(innerLog, [resp |-> resp, err |-> err])
    /\ IF FALSE
       THEN Return(resp, err) /\ UNCHANGED << lastResp, lastErr, backoff, obs >>
       ELSE LET decision == RetryDecision(err, attempt, config.Retry)
            IN  /\ IF err.kind = "nil"
                   THEN UNCHANGED << lastResp, lastErr >>
                   ELSE lastResp' = resp /\ lastErr' = err
                /\ CASE decision = "return" ->
                          Return(resp, err) /\ UNCHANGED << backoff, obs >>
                     [] decision = "exhausted" ->
                          Return(resp, err) /\ UNCHANGED << backoff, obs >>
                     [] decision = "backoff" ->
                          \E o \in calculateBackoffDuration(attempt, RetryAfterHint(err), config.Retry) :
                              IF o.panic
                              THEN /\ phase' = "panic"
                                   /\ UNCHANGED << depth, resp, err, backoff, obs >>
                              ELSE /\ backoff' = o.d
                                   /\ phase' = "backoff"
                                   /\ obs' = [obs EXCEPT !.waits = @ + 1,
                                                         !.cancelledAtWait = (ctx = "canceled")]
                                   /\ UNCHANGED << depth, resp, err >>
    /\ UNCHANGED << config, rateLimiter, ctx, req, attempt, order, wire, pureVars >>

\* wrapRetryMiddleware: next(req) has returned resp, err
RetryRet ==
    /\ Stage = "retry"
    /\ phase = "ret"
    /\ innerLog' = Append(innerLog, [resp |-> resp, err |-> err])
    /\ IF ~config.Retry.Enabled
       THEN Return(resp, err) /\ UNCHANGED << lastResp, lastErr, backoff, obs >>
       ELSE LET decision == RetryDecision(err, attempt, config.Retry)
            IN  /\ IF err.kind = "nil"
                   THEN UNCHANGED << lastResp, lastErr >>
                   ELSE lastResp' = resp /\ lastErr' = err
                /\ CASE decision = "return" ->
                          Return(resp, err) /\ UNCHANGED << backoff, obs >>
                     [] decision = "exhausted" ->
                          Return(resp, err) /\ UNCHANGED << backoff, obs >>
                     [] decision = "backoff" ->
                          \E o \in calculateBackoffDuration(attempt, RetryAfterHint(err), config.Retry) :
                              IF o.panic
                              THEN /\ phase' = "panic"
                                   /\ UNCHANGED << depth, resp, err, backoff, obs >>
                              ELSE /\ backoff' = o.d
                                   /\ phase' = "backoff"
                                   /\ obs' = [obs EXCEPT !.waits = @ + 1,
                                                         !.cancelledAtWait = (ctx = "canceled")]
                                   /\ UNCHANGED << depth, resp, err >>
    /\ UNCHANGED << config, rateLimiter, ctx, req, attempt, order, wire, pureVars >>

BackoffElapsedKeepsCount ==
    /\ Stage = "retry"
    /\ phase = "backoff"
    /\ ctx = "active" \/ obs.cancelledAtWait
    /\ attempt' = attempt + 1
    /\ IF attempt + 1 < config.Retry.MaxAttempts
       THEN UNCHANGED req /\ CallNext
       ELSE Return(lastResp, lastErr) /\ UNCHANGED req
    /\ UNCHANGED << config, rateLimiter, ctx, lastResp, lastErr, backoff, obs, order,
                    innerLog, wire, pureVars >>

\* the select of the retry loop: time.After(backoff) fires; the loop goes on.
\* A select that blocks proceeds with the first channel that becomes ready, so
\* the timer ends the wait while the context is active; when the context was
\* already done as the select was entered, either ready case may be chosen.
BackoffElapsed ==
    /\ Stage = "retry"
    /\ phase = "backoff"
    /\ ctx = "active" \/ obs.cancelledAtWait
    /\ attempt' = attempt + 1
    /\ IF attempt + 1 < config.Retry.MaxAttempts
       THEN req' = [req EXCEPT !.RetryCount = attempt + 1] /\ CallNext
       ELSE Return(lastResp, lastErr) /\ UNCHANGED req
    /\ UNCHANGED << config, rateLimiter, ctx, lastResp, lastErr, backoff, obs, order,
                    innerLog, wire, pureVars >>

BackoffCancelledLastErr ==
    /\ Stage = "retry"
    /\ phase = "backoff"
    /\ ctx = "canceled"
    /\ Return(lastResp, lastErr)
    /\ UNCHANGED << config, rateLimiter, ctx, req, attempt, lastResp, lastErr, backoff,
                    obs, order, innerLog, wire, pureVars >>

\* the select of the retry loop: req.Context.Done() fires
BackoffCancelled ==
    /\ Stage = "retry"
    /\ phase = "backoff"
    /\ ctx = "canceled"
    /\ Return(lastResp, CtxErr)
    /\ UNCHANGED << config, rateLimiter, ctx, req, attempt, lastResp, lastErr, backoff,
                    obs, order, innerLog, wire, pureVars >>

\* req.AddHeader("Content-Type", "application/json") when the request has a body
WithContentType(r) ==
    IF r.Body # "none"
    THEN [r EXCEPT !.Headers["Content-Type"] = << "application/json" >>]
    ELSE r

\* httpMiddleware, up to the moment the request is on the wire
HttpCall ==
    /\ Stage = "http"
    /\ phase = "call"
    /\ Enter("http")
    /\ IF req.Body = "unmarshalable"
       THEN /\ Return(NilResp, TransportErr("marshal"))
            /\ obs' = [obs EXCEPT !.httpCalls = @ + 1]
            /\ UNCHANGED << req, wire >>
       ELSE /\ req' = WithContentType(req)
            /\ IF req.Method = "BAD METHOD"
               THEN /\ Return(NilResp, TransportErr("create"))
                    /\ obs' = [obs EXCEPT !.httpCalls = @ + 1]
                    /\ UNCHANGED wire
               ELSE IF ctx = "canceled"
               THEN /\ Return(NilResp, TransportErr("canceled"))
                    /\ obs' = [obs EXCEPT !.httpCalls = @ + 1]
                    /\ UNCHANGED wire
               ELSE \/ /\ Return(NilResp, TransportErr("network"))
                       /\ obs' = [obs EXCEPT !.httpCalls = @ + 1]
                       /\ UNCHANGED wire
                    \/ /\ \E w \in WireHeaders(req'.Headers) :
                              wire' = [sent |-> TRUE, headers |-> w]
                       /\ obs' = [obs EXCEPT !.httpCalls = @ + 1, !.roundTrips = @ + 1]
                       /\ phase' = "inflight"
                       /\ UNCHANGED << depth, resp, err >>
    /\ UNCHANGED << config, rateLimiter, ctx, attempt, lastResp, lastErr, backoff,
                    innerLog, pureVars >>

\* httpMiddleware: the answer has arrived and its body was read
HttpResponse ==
    /\ Stage = "http"
    /\ phase = "inflight"
    /\ \E sr \in ServerResponses, now \in Nows :
          LET res == httpResult(sr, now)
          IN  Return(res.resp, res.err)
    /\ UNCHANGED << config, rateLimiter, ctx, req, attempt, lastResp, lastErr, backoff,
                    obs, order, innerLog, wire, pureVars >>

\* httpMiddleware: httpClient.Do or readResponseBody fails (connection, timeout, read)
HttpFailure ==
    /\ Stage = "http"
    /\ phase = "inflight"
    /\ \E cause \in {"network", "read"} : Return(NilResp, TransportErr(cause))
    /\ UNCHANGED << config, rateLimiter, ctx, req, attempt, lastResp, lastErr, backoff,
                    obs, order, innerLog, wire, pureVars >>

\* httpMiddleware: the context is cancelled while the request is in flight
HttpAborted ==
    /\ Stage = "http"
    /\ phase = "inflight"
    /\ ctx = "canceled"
    /\ Return(NilResp, TransportErr("canceled"))
    /\ UNCHANGED << config, rateLimiter, ctx, req, attempt, lastResp, lastErr, backoff,
                    obs, order, innerLog, wire, pureVars >>

\* Do has returned; the caller prepares another call with a fresh context
NewCall ==
    /\ phase = "done"
    /\ phase' = "idle"
    /\ depth' = 0
    /\ ctx' = "active"
    /\ req' = [Method |-> "GET", Body |-> "none", Headers |-> NoReqHeaders, RetryCount |-> 0]
    /\ attempt' = 0
    /\ lastResp' = NilResp
    /\ lastErr' = NilErr
    /\ resp' = NilResp
    /\ err' = NilErr
    /\ backoff' = 0
    /\ obs' = NoObs
    /\ order' = << >>
    /\ innerLog' = << >>
    /\ wire' = NoWire
    /\ UNCHANGED << config, rateLimiter, pureVars >>

Next ==
    \/ Cancel
    \/ Do
    \/ AuthCall
    \/ AuthRet
    \/ RateLimitCall
    \/ RateLimitAcquire
    \/ RateLimitGranted
    \/ RateLimitWaitCancelled
    \/ Refill
    \/ RateLimitRet
    \/ RetryCall
    \/ RetryRet
    \/ BackoffElapsed
    \/ BackoffCancelled
    \/ HttpCall
    \/ HttpResponse
    \/ HttpFailure
    \/ HttpAborted
    \/ NewCall

Spec == Init /\ [][Next]_vars

-----------------------------------------------------------------------------
(* Specification of calculateBackoffDuration on its own: the inputs are drawn *)
(* from BackoffInputs and the function is applied to them                     *)

Returned(o) == [status |-> "returned", out |-> o]

InitBackoff ==
    /\ InitClient(NewConfig)
    /\ fin \in BackoffInputs
    /\ fout = Pending

CalcBackoff ==
    /\ fin.fn = "calculateBackoffDuration"
    /\ fout = Pending
    /\ \E o \in calculateBackoffDuration(fin.attempt, fin.retryAfter, fin.cfg) :
          fout' = Returned(o)
    /\ UNCHANGED << config, rateLimiter, ctx, callVars, fin, limVars >>

NextBackoff == CalcBackoff

SpecBackoff == InitBackoff /\ [][NextBackoff]_vars

-----------------------------------------------------------------------------
(* Specification of NewClient on its own: the options are applied to
   NewConfig in order and the limiter is built from the result *)

MaxOpts == 2

\* the functional options that touch the rate limiter's configuration
WithAccessToken(token) == [opt |-> "WithAccessToken", arg |-> token]
WithRateLimitMaxBurst(burst) == [opt |-> "WithRateLimitMaxBurst", arg |-> burst]
WithRateLimitDailyLimit(limit) == [opt |-> "WithRateLimitDailyLimit", arg |-> limit]
WithRateLimitEnabled(enabled) == [opt |-> "WithRateLimitEnabled", arg |-> enabled]

Options ==
    { WithAccessToken("tok") }
    \cup { WithRateLimitMaxBurst(b) : b \in {0, 1} }
    \cup { WithRateLimitDailyLimit(l) : l \in {0, 5, 500000} }
    \cup { WithRateLimitEnabled(e) : e \in BOOLEAN }

\* what one option does to the configuration
Apply(cfg, o) ==
    CASE o.opt = "WithAccessToken" -> [cfg EXCEPT !.AccessToken = o.arg]
      [] o.opt = "WithRateLimitMaxBurst" -> [cfg EXCEPT !.RateLimit.MaxBurst = o.arg]
      [] o.opt = "WithRateLimitDailyLimit" -> [cfg EXCEPT !.RateLimit.DailyLimit = o.arg]
      [] o.opt = "WithRateLimitEnabled" -> [cfg EXCEPT !.RateLimit.Enabled = o.arg]

RECURSIVE ApplyAll(_, _)
ApplyAll(cfg, opts) ==
    IF opts = << >> THEN cfg ELSE ApplyAll(Apply(cfg, Head(opts)), Tail(opts))

\* NewClient: the configuration after the options, and the limiter built
\* from its MaxBurst alone
NewClient(opts) ==
    LET cfg == ApplyAll(NewConfig, opts)
    IN  [config |-> cfg, rateLimiter |-> NewRateLimiter(cfg.RateLimit.MaxBurst)]

NewClientInputs ==
    [ fn : {"NewClient"},
      opts : UNION { [1..n -> Options] : n \in 0..MaxOpts } ]

InitNewClient ==
    /\ InitClient(NewConfig)
    /\ fin \in NewClientInputs
    /\ fout = Pending

CalcNewClient ==
    /\ fin.fn = "NewClient"
    /\ fout = Pending
    /\ fout' = Returned(NewClient(fin.opts))
    /\ UNCHANGED << config, rateLimiter, ctx, callVars, fin, limVars >>

NextNewClient == CalcNewClient

SpecNewClient == InitNewClient /\ [][NextNewClient]_vars

-----------------------------------------------------------------------------
(* Specification of ExtractRateLimitInfo on its own *)

\* header values: absent, numbers with and without a sign, and text that
\* strconv.Atoi rejects
ExtractValues ==
    { << >>, <<"0">>, <<"7">>, <<"-", "5">>, <<"x">>, <<"5", "x">> }

ExtractInputs ==
    [ fn : {"ExtractRateLimitInfo"},
      headers : { h \in [HeaderNames -> ExtractValues] : h["Retry-After"] = << >> } ]

InitExtract ==
    /\ InitClient(NewConfig)
    /\ fin \in ExtractInputs
    /\ fout = Pending

CalcExtract ==
    /\ fin.fn = "ExtractRateLimitInfo"
    /\ fout = Pending
    /\ fout' = Returned(ExtractRateLimitInfo(fin.headers))
    /\ UNCHANGED << config, rateLimiter, ctx, callVars, fin, limVars >>

NextExtract == CalcExtract

SpecExtract == InitExtract /\ [][NextExtract]_vars

-----------------------------------------------------------------------------
(* crm/v3/contacts/errors.go: ParseContactError, and its specification *)

ContactNotFoundError(contactID, original) ==
    [kind |-> "ContactNotFoundError", ContactID |-> contactID, Original |-> original]

ContactValidationError(field, message, original) ==
    [ kind |-> "ContactValidationError", Field |-> field, Message |-> message,
      Original |-> original ]

ContactAlreadyExistsError(contactID, original) ==
    [kind |-> "ContactAlreadyExistsError", ContactID |-> contactID, Original |-> original]

ParseContactErrorAnyBadRequest(e, contactID) ==
    IF ~IsHubSpotError(e) THEN e
    ELSE CASE e.Status = 404 -> ContactNotFoundError(contactID, e)
           [] e.Status = 400 -> ContactValidationError(e.Message, "", e)
           [] e.Status = 409 -> ContactAlreadyExistsError("", e)
           [] OTHER -> e

\* the fields a composite literal leaves out hold the empty string
ParseContactError(e, contactID) ==
    IF ~IsHubSpotError(e) THEN e
    ELSE CASE e.Status = 404 -> ContactNotFoundError(contactID, e)
           [] e.Status = 400 /\ e.Category = "VALIDATION_ERROR" ->
                 ContactValidationError(e.Message, "", e)
           [] e.Status = 409 -> ContactAlreadyExistsError("", e)
           [] OTHER -> e

ContactStatuses == {400, 404, 409, 500}

ContactBodies ==
    {NotJson} \cup
    { JsonBody(m, c, "") : m \in {"", "Invalid email format"},
                           c \in {"", "VALIDATION_ERROR", "OTHER_ERROR"} }

ContactIDs == {"", "12345", "test@example.com"}

\* the errors a contacts call can get back from Do: classified ones, a
\* transport error, the context's error, and no error
ContactErrs ==
    { ParseHubSpotError(s, b, NoHeaders, 0) : s \in ContactStatuses, b \in ContactBodies }
    \cup { NilErr, CtxErr, TransportErr("do") }

ContactInputs ==
    [ fn : {"ParseContactError"}, err : ContactErrs, contactID : ContactIDs ]

InitContact ==
    /\ InitClient(NewConfig)
    /\ fin \in ContactInputs
    /\ fout = Pending

CalcContact ==
    /\ fin.fn = "ParseContactError"
    /\ fout = Pending
    /\ fout' = Returned(ParseContactError(fin.err, fin.contactID))
    /\ UNCHANGED << config, rateLimiter, ctx, callVars, fin, limVars >>

NextContact == CalcContact

SpecContact == InitContact /\ [][NextContact]_vars

-----------------------------------------------------------------------------
(* Specification of ParseHubSpotError on its own *)

ParseStatuses == {400, 404, 429, 500, 501, 502, 503, 504}

ParseBodies ==
    {NotJson} \cup
    { JsonBody(m, c, p) : m \in {"", "DAILY limit, retry later"},
                          c \in {"", "RATE_LIMITS"},
                          p \in {"", "DAILY", "TEN_SECONDLY_ROLLING"} }

HeaderChars == {"0", "5", "-", "@", "x"}

\* every header value of at most MaxHeaderLen characters
HeaderValues == UNION { [1..n -> HeaderChars] : n \in 0..MaxHeaderLen }

ParseNows == {0, 20}

ParseInputs ==
    [ fn : {"ParseHubSpotError"},
      statusCode : ParseStatuses,
      body : ParseBodies,
      headers : { [NoHeaders EXCEPT !["Retry-After"] = v] : v \in HeaderValues },
      now : ParseNows ]

InitParse ==
    /\ InitClient(NewConfig)
    /\ fin \in ParseInputs
    /\ fout = Pending

CalcParse ==
    /\ fin.fn = "ParseHubSpotError"
    /\ fout = Pending
    /\ fout' = Returned(ParseHubSpotError(fin.statusCode, fin.body, fin.headers, fin.now))
    /\ UNCHANGED << config, rateLimiter, ctx, callVars, fin, limVars >>

NextParse == CalcParse

SpecParse == InitParse /\ [][NextParse]_vars

-----------------------------------------------------------------------------
(* Specification of the rate limiter under concurrent calls: every call runs *)
(* wrapRateLimitMiddleware (rate limiting enabled) on the limiter of its     *)
(* client; the handler it wraps is reduced to the response it returns        *)

\* the mutex of limiter c after RUnlock by p
RUnlock(mu, p) == [mu EXCEPT !.readers = @ \ {p}]

\* the mutex after Unlock: the readers blocked by the writer hold the lock, and
\* the next queued writer gets the writers' mutex and announces itself
Unlock(mu) ==
    [mu EXCEPT !.writer = 0,
               !.readers = mu.rwait,
               !.rwait = {},
               !.pending = IF mu.wq = << >> THEN 0 ELSE Head(mu.wq),
               !.wq = IF mu.wq = << >> THEN << >> ELSE Tail(mu.wq)]

\* a call enters wrapRateLimitMiddleware; CheckDailyLimit: rl.mu.RLock()
LimStart(p) ==
    /\ pc[p] = "idle"
    /\ LET c == LimiterOf(p)
           mu == limiters[c].mu
       IN  IF mu.writer = 0 /\ mu.pending = 0
           THEN /\ limiters' = [limiters EXCEPT ![c].mu.readers = @ \cup {p}]
                /\ pc' = [pc EXCEPT ![p] = "rlocked"]
           ELSE /\ limiters' = [limiters EXCEPT ![c].mu.rwait = @ \cup {p}]
                /\ pc' = [pc EXCEPT ![p] = "rlockWait"]
    /\ UNCHANGED << config, rateLimiter, ctx, callVars, fin, fout, got, via >>

LimCheckNoUnlock(p) ==
    /\ pc[p] = "rlocked"
    /\ LET c == LimiterOf(p)
       IN  pc' = [pc EXCEPT ![p] = IF CheckDailyLimit(limiters[c].rl) THEN "wait" ELSE "idle"]
    /\ UNCHANGED << config, rateLimiter, ctx, callVars, fin, fout, got, limiters, via >>

\* CheckDailyLimit: return rl.dailyRemaining > 0, with the deferred RUnlock; the
\* daily gate of wrapRateLimitMiddleware rejects the call or lets it go on to Wait
LimCheck(p) ==
    /\ pc[p] = "rlocked"
    /\ LET c == LimiterOf(p)
       IN  /\ limiters' = [limiters EXCEPT ![c].mu = RUnlock(@, p)]
           /\ pc' = [pc EXCEPT ![p] = IF CheckDailyLimit(limiters[c].rl) THEN "wait" ELSE "idle"]
    /\ UNCHANGED << config, rateLimiter, ctx, callVars, fin, fout, got, via >>

\* rateLimiter.Wait returns: after the burst check the limiter reserves one
\* token for the call; the call takes a token that is there, or sleeps until
\* the token reserved for it has been refilled and takes that one (the context
\* of these calls has no deadline and is not cancelled)
LimWait(p) ==
    /\ pc[p] = "wait"
    /\ LET c == LimiterOf(p)
           rl == limiters[c].rl
       IN  IF rl.burst < 1
           THEN pc' = [pc EXCEPT ![p] = "idle"] /\ UNCHANGED limiters
           ELSE /\ limiters' = [limiters EXCEPT
                                   ![c].rl.tokens = IF rl.tokens >= 1 THEN @ - 1 ELSE @]
                /\ pc' = [pc EXCEPT ![p] = "transport"]
    /\ UNCHANGED << config, rateLimiter, ctx, callVars, fin, fout, got, via >>

\* next(req) returns; with a response, UpdateFromResponse: rl.mu.Lock()
LimTransport(p) ==
    /\ pc[p] = "transport"
    /\ \E r \in LimiterResponses \cup {NilResp} :
          IF r.nil
          THEN pc' = [pc EXCEPT ![p] = "idle"] /\ UNCHANGED << limiters, got >>
          ELSE LET c == LimiterOf(p)
                   mu == limiters[c].mu
               IN  /\ got' = [got EXCEPT ![p] = r]
                   /\ pc' = [pc EXCEPT ![p] = "lockWait"]
                   /\ IF mu.writer = 0 /\ mu.pending = 0
                      THEN limiters' = [limiters EXCEPT ![c].mu.pending = p]
                      ELSE limiters' = [limiters EXCEPT ![c].mu.wq = Append(@, p)]
    /\ UNCHANGED << config, rateLimiter, ctx, callVars, fin, fout, via >>

LimLockGrantedOverReaders(p) ==
    /\ pc[p] = "lockWait"
    /\ LET c == LimiterOf(p)
       IN  /\ limiters[c].mu.pending = p
           /\ limiters' = [limiters EXCEPT ![c].mu.pending = 0, ![c].mu.writer = p]
    /\ pc' = [pc EXCEPT ![p] = "locked"]
    /\ UNCHANGED << config, rateLimiter, ctx, callVars, fin, fout, got, via >>

\* rl.mu.Lock() returns: the announced writer has the lock once the readers left
LimLockGranted(p) ==
    /\ pc[p] = "lockWait"
    /\ LET c == LimiterOf(p)
       IN  /\ limiters[c].mu.pending = p
           /\ limiters[c].mu.readers = {}
           /\ limiters' = [limiters EXCEPT ![c].mu.pending = 0, ![c].mu.writer = p]
    /\ pc' = [pc EXCEPT ![p] = "locked"]
    /\ UNCHANGED << config, rateLimiter, ctx, callVars, fin, fout, got, via >>

\* UpdateFromResponse: rl.dailyRemaining = resp.RateLimit.DailyRemaining
LimWriteRemaining(p) ==
    /\ pc[p] = "locked"
    /\ limiters' = [limiters EXCEPT
                       ![LimiterOf(p)].rl.dailyRemaining = got[p].RateLimit.DailyRemaining]
    /\ pc' = [pc EXCEPT ![p] = "written1"]
    /\ UNCHANGED << config, rateLimiter, ctx, callVars, fin, fout, got, via >>

\* UpdateFromResponse: rl.dailyLimit = resp.RateLimit.DailyLimit
LimWriteLimit(p) ==
    /\ pc[p] = "written1"
    /\ limiters' = [limiters EXCEPT
                       ![LimiterOf(p)].rl.dailyLimit = got[p].RateLimit.DailyLimit]
    /\ pc' = [pc EXCEPT ![p] = "written2"]
    /\ UNCHANGED << config, rateLimiter, ctx, callVars, fin, fout, got, via >>

\* UpdateFromResponse: the deferred rl.mu.Unlock(); the call returns
LimUnlock(p) ==
    /\ pc[p] = "written2"
    /\ LET c == LimiterOf(p)
           mu == limiters[c].mu
       IN  /\ limiters' = [limiters EXCEPT ![c].mu = Unlock(@)]
           /\ pc' = [q \in Calls |-> IF q = p THEN "idle"
                                     ELSE IF q \in mu.rwait THEN "rlocked"
                                     ELSE pc[q]]
    /\ got' = [got EXCEPT ![p] = NilResp]
    /\ UNCHANGED << config, rateLimiter, ctx, callVars, fin, fout, via >>

\* time passes: the bucket of client c gains a token
LimRefill(c) ==
    /\ limiters[c].rl.tokens < limiters[c].rl.burst
    /\ limiters' = [limiters EXCEPT ![c].rl.tokens = @ + 1]
    /\ UNCHANGED << config, rateLimiter, ctx, callVars, fin, fout, pc, got, via >>

\* the steps of call p once it has been made
LimStep(p) ==
    \/ LimCheck(p)
    \/ LimWait(p)
    \/ LimTransport(p)
    \/ LimLockGranted(p)
    \/ LimWriteRemaining(p)
    \/ LimWriteLimit(p)
    \/ LimUnlock(p)

\* every call goes through the same client
InitLimiter ==
    /\ InitClient(NewConfig)
    /\ fin = NoInput
    /\ fout = Pending

NextLimiter ==
    \/ \E p \in Calls : LimStart(p)
    \/ \E p \in Calls : LimStep(p)
    \/ \E c \in Clients : LimRefill(c)

\* a goroutine that can run is run in the end: a call that has been made takes
\* its next step when that step stays possible
SpecLimiter ==
    /\ InitLimiter
    /\ [][NextLimiter]_vars
    /\ \A p \in Calls : WF_vars(LimStep(p))

\* the calls are spread over the two clients in every way (the clients are
\* alike, so the first call is taken to go through client a)
InitClients ==
    /\ config = NewConfig
    /\ rateLimiter = NewRateLimiter(NewConfig.RateLimit.MaxBurst)
    /\ ctx = "active"
    /\ req = [Method |-> "GET", Body |-> "none", Headers |-> NoReqHeaders, RetryCount |-> 0]
    /\ depth = 0
    /\ phase = "idle"
    /\ attempt = 0
    /\ lastResp = NilResp
    /\ lastErr = NilErr
    /\ resp = NilResp
    /\ err = NilErr
    /\ backoff = 0
    /\ obs = NoObs
    /\ order = << >>
    /\ innerLog = << >>
    /\ wire = NoWire
    /\ fin = NoInput
    /\ fout = Pending
    /\ limiters = [c \in Clients |-> NewLimiter(1)]
    /\ pc = [p \in Calls |-> "idle"]
    /\ got = [p \in Calls |-> NilResp]
    /\ via \in {v \in [Calls -> Clients] : v[1] = "a"}

NextClients == NextLimiter

SpecClients == InitClients /\ [][NextClients]_vars

-----------------------------------------------------------------------------
(* Claims *)

Last(seq) == seq[Len(seq)]

\* an entry of innerLog that is a classified error with the retryable flag set
RetryableFailure(entry) == IsHubSpotError(entry.err) /\ entry.err.IsRetryable

\* an entry of innerLog that is a classified error with the retryable flag unset
NonRetryableFailure(entry) == IsHubSpotError(entry.err) /\ ~entry.err.IsRetryable

Succeeded(entry) == entry.err.kind = "nil"

\* the call has ended: Do has returned, or the goroutine has panicked
CallOver == phase \in {"done", "panic"}

\* C1: with retry enabled and max-attempts N >= 1, when the inner handler fails
\* k < N times in a row with a retryable classified error and then succeeds, Do
\* returns the successful response with a nil error after exactly k+1 inner
\* invocations. As long as the context is not cancelled this needs (a) that a
\* call never ends after k retryable failures with 1 <= k < N, since the inner
\* handler has to be invoked once more, and (b) that a success after k retryable
\* failures is what Do returns.
C1_RetryThenSuccess ==
    (config.Retry.Enabled /\ config.Retry.MaxAttempts >= 1) =>
        /\ ( /\ CallOver
             /\ ctx = "active"
             /\ Len(innerLog) \in 1..(config.Retry.MaxAttempts - 1)
             /\ \A i \in 1..Len(innerLog) : RetryableFailure(innerLog[i]) ) => FALSE
        /\ ( /\ phase = "done"
             /\ Len(innerLog) \in 1..config.Retry.MaxAttempts
             /\ Succeeded(Last(innerLog))
             /\ \A i \in 1..(Len(innerLog) - 1) : RetryableFailure(innerLog[i]) )
           => /\ err.kind = "nil"
              /\ resp = Last(innerLog).resp
              /\ obs.httpCalls = Len(innerLog)

\* C2: with retry enabled, once an attempt has returned a classified error whose
\* retryable flag is false, the retry loop has returned that response and that
\* error: no backoff wait was begun for it and the inner handler is not invoked
\* again, whatever max-attempts is.
C2_NonRetryableReturnsAtOnce ==
    ( /\ config.Retry.Enabled
      /\ innerLog # << >>
      /\ NonRetryableFailure(Last(innerLog)) )
    => /\ Stage \in {"none", "auth", "ratelimit"}
       /\ phase \in {"ret", "done"}
       /\ resp = Last(innerLog).resp
       /\ err = Last(innerLog).err
       /\ obs.httpCalls = Len(innerLog)
       /\ obs.waits = Len(innerLog) - 1

C2_Witness ==
    /\ phase = "done"
    /\ config.Retry.Enabled
    /\ config.Retry.MaxAttempts = 3
    /\ Len(innerLog) = 1
    /\ err.kind = "hubspot"
    /\ err.Status = 400
    /\ obs.roundTrips = 1

\* C3: the retryable flag of a classified error depends on the status and the
\* policy name alone: 429 is retryable unless the policy name is "DAILY" (an
\* absent or undecodable policy name is not DAILY), 500, 502, 503 and 504 are
\* retryable, every other status is not, whatever the message, the other body
\* fields and the headers are.
C3_RetryableTable ==
    (fin.fn = "ParseHubSpotError" /\ fout # Pending) =>
        LET policy == IF fin.body.valid THEN fin.body.policyName ELSE ""
        IN  fout.out.IsRetryable <=>
                \/ fin.statusCode = 429 /\ policy # "DAILY"
                \/ fin.statusCode \in {500, 502, 503, 504}

C3_Witness ==
    /\ fin.fn = "ParseHubSpotError"
    /\ fout # Pending
    /\ fin.statusCode = 429
    /\ fin.body.valid
    /\ fin.body.policyName = "DAILY"
    /\ fin.body.message # ""
    /\ fin.headers["Retry-After"] = << "5" >>
    /\ ~fout.out.IsRetryable

\* the responses the state holds
Responses ==
    {resp, lastResp} \cup {innerLog[i].resp : i \in 1..Len(innerLog)}

\* C4: a Response produced by the transport has a non-nil error field exactly
\* when its status is >= 400; with a status < 400 the transport returns a nil
\* error, with a status >= 400 it returns the classified error attached to the
\* Response, and the status of that error is the HTTP status.
C4_ErrorFieldIffStatus ==
    /\ \A r \in Responses :
          ~r.nil => /\ (r.HubSpotError.kind # "nil") <=> (r.StatusCode >= 400)
                    /\ r.StatusCode >= 400 => r.HubSpotError.Status = r.StatusCode
    /\ (Stage = "retry" /\ phase = "ret" /\ ~resp.nil) =>
          IF resp.StatusCode < 400
          THEN err.kind = "nil"
          ELSE err = resp.HubSpotError /\ err.Status = resp.StatusCode

C4_Witness ==
    /\ Stage = "retry"
    /\ phase = "ret"
    /\ Len(innerLog) = 1
    /\ innerLog[1].resp.StatusCode = 500
    /\ innerLog[1].err.Status = 500
    /\ ~resp.nil
    /\ resp.StatusCode = 399
    /\ err.kind = "nil"

\* C5: with rate limiting enabled, a call submitted while the limiter's
\* daily-remaining is <= 0 fails at once with a nil response and a classified
\* error of status 429, policy DAILY, not retryable; the transport handler is
\* never invoked for it and it waits for nothing.
C5_DailyGate ==
    (config.RateLimit.Enabled /\ phase # "idle" /\ obs.dailyAtDo <= 0) =>
        /\ obs.httpCalls = 0
        /\ obs.roundTrips = 0
        /\ obs.admitted = 0
        /\ obs.waits = 0
        /\ phase \in {"call", "ret", "done"}
        /\ phase \in {"ret", "done"} =>
              /\ resp.nil
              /\ err.kind = "hubspot"
              /\ err.Status = 429
              /\ err.PolicyName = "DAILY"
              /\ ~err.IsRetryable

C5_Witness ==
    /\ config.RateLimit.Enabled
    /\ config.Retry.Enabled
    /\ phase = "done"
    /\ obs.dailyAtDo = 0
    /\ obs.dailyChecks = 1
    /\ err.kind = "hubspot"
    /\ err.Status = 429

\* C6: with rate limiting and retry both enabled (and max-attempts >= 1, so that
\* attempts are made), every transport attempt of a call is preceded by an
\* admission of its own: the transport is never invoked more often than
\* admission was granted, and when Do returns the number of admissions equals
\* the number of transport invocations.
C6_AdmissionPerAttempt ==
    (config.RateLimit.Enabled /\ config.Retry.Enabled /\ config.Retry.MaxAttempts >= 1) =>
        /\ obs.httpCalls <= obs.admitted
        /\ phase = "done" => obs.admitted = obs.httpCalls

\* C7: within a call the handlers are entered in the order auth, rate limit,
\* retry, transport; the credential header is on the Request before any
\* admission check, and the transport is not invoked before the auth and the
\* rate-limit handlers have run.
C7_StageOrder ==
    /\ \E n \in 0..4 : order = SubSeq(<< "auth", "ratelimit", "retry", "http" >>, 1, n)
    /\ ("ratelimit" \in Range(order) /\ config.AccessToken # "") =>
          req.Headers["Authorization"] = Bearer(config.AccessToken)
    /\ obs.dailyChecks > 0 => "auth" \in Range(order)
    /\ obs.httpCalls > 0 => {"auth", "ratelimit", "retry"} \subseteq Range(order)

C7_Witness ==
    /\ phase = "done"
    /\ config.AccessToken # ""
    /\ config.RateLimit.Enabled
    /\ config.Retry.Enabled
    /\ order = << "auth", "ratelimit", "retry", "http" >>
    /\ obs.admitted = 1
    /\ obs.roundTrips = 2
    /\ wire.sent
    /\ wire.headers["Authorization"] = Bearer(config.AccessToken)

C9_HintVerbatim ==
    (fin.fn = "calculateBackoffDuration" /\ fout # Pending /\ fin.retryAfter > 0) =>
        fout.out = Outcome(fin.retryAfter)

C9_Witness ==
    /\ fin.fn = "calculateBackoffDuration"
    /\ fout # Pending
    /\ fin.attempt = 10
    /\ fin.retryAfter = 60 * Second
    /\ fin.cfg.MaxBackoff = 30 * Second
    /\ fin.cfg.InitialBackoff = Second
    /\ ~fout.out.panic
    /\ fout.out.d = 60 * Second

\* C10: without a positive wait hint, for every attempt index a >= 0
\* calculateBackoffDuration returns a duration d with 0 <= d <= max-backoff, and
\* with 0.9 * initial * 2^a <= d <= 1.1 * initial * 2^a whenever
\* 1.1 * initial * 2^a <= max-backoff.
C10_BackoffRange ==
    (fin.fn = "calculateBackoffDuration" /\ fout # Pending /\ fin.retryAfter <= 0) =>
        LET d == fout.out.d
            exp == fin.cfg.InitialBackoff * (2 ^ fin.attempt)
        IN  /\ ~fout.out.panic
            /\ 0 <= d
            /\ d <= fin.cfg.MaxBackoff
            /\ (11 * exp <= 10 * fin.cfg.MaxBackoff) =>
                  (9 * exp <= 10 * d /\ 10 * d <= 11 * exp)

-----------------------------------------------------------------------------
(* Claims about the retry loop, the feedback update and the headers *)

\* an error of the inner handler that is not a classified HTTP error
Unclassified(e) == e.kind # "nil" /\ ~IsHubSpotError(e)

\* C11: with retry enabled, an error of the inner handler that is not a
\* classified HTTP error (transport, network, timeout, marshalling) ends the
\* retry loop at once, whatever max-attempts is: it is the last entry of the
\* inner handler's history, the retry handler has returned it (with no
\* response) to its caller, and no backoff wait was begun for it.
C11_UnclassifiedReturnsAtOnce ==
    config.Retry.Enabled =>
        \A i \in 1..Len(innerLog) :
            Unclassified(innerLog[i].err) =>
                /\ i = Len(innerLog)
                /\ depth < 3
                /\ phase \in {"ret", "done"}
                /\ err = innerLog[i].err
                /\ resp = innerLog[i].resp
                /\ obs.httpCalls = i
                /\ obs.waits = i - 1

C11_Witness ==
    /\ config.Retry.Enabled
    /\ config.Retry.MaxAttempts = 3
    /\ phase = "done"
    /\ Len(innerLog) = 2
    /\ IsHubSpotError(innerLog[1].err)
    /\ innerLog[2].err = TransportErr("network")
    /\ err = TransportErr("network")
    /\ obs.waits = 1

\* C12: with retry enabled and max-attempts N >= 1 the inner handler is invoked
\* at most N times per call and at most N-1 backoff waits are begun; when every
\* attempt fails with a retryable classified error (and the context is not
\* cancelled) the call ends with Do returning the response and the error of the
\* N-th attempt, after exactly N invocations and exactly N-1 waits.
C12_ExactlyNAttempts ==
    (config.Retry.Enabled /\ config.Retry.MaxAttempts >= 1) =>
        /\ Len(innerLog) <= config.Retry.MaxAttempts
        /\ obs.httpCalls <= config.Retry.MaxAttempts
        /\ obs.waits <= config.Retry.MaxAttempts - 1
        /\ ( /\ CallOver
             /\ ctx = "active"
             /\ Len(innerLog) >= 1
             /\ \A i \in 1..Len(innerLog) : RetryableFailure(innerLog[i]) )
           => /\ phase = "done"
              /\ Len(innerLog) = config.Retry.MaxAttempts
              /\ obs.httpCalls = config.Retry.MaxAttempts
              /\ obs.waits = config.Retry.MaxAttempts - 1
              /\ resp = Last(innerLog).resp
              /\ err = Last(innerLog).err

\* the retry loop is waiting out a backoff and the context was cancelled after
\* the wait began
CancelledDuringWait ==
    /\ Stage = "retry"
    /\ phase = "backoff"
    /\ ctx = "canceled"
    /\ ~obs.cancelledAtWait

\* the retry handler has returned the context's error after at least one attempt
StoppedByCancel ==
    /\ depth < 3
    /\ phase \in {"ret", "done"}
    /\ err = CtxErr
    /\ Len(innerLog) >= 1

\* C13: when the context is cancelled while the retry loop waits out a backoff,
\* the loop stops: the next step of the call is the return of the retry handler
\* with the context's cancellation error (not the last HTTP error) and the last
\* response alongside it, without another inner invocation; and once the retry
\* handler has returned the cancellation error, the inner handler has been
\* invoked exactly once per recorded attempt and the response of the call is
\* that of the last attempt.
C13_CancelStopsLoop ==
    /\ [](StoppedByCancel =>
            /\ ~resp.nil
            /\ resp = Last(innerLog).resp
            /\ IsHubSpotError(Last(innerLog).err)
            /\ obs.httpCalls = Len(innerLog)
            /\ obs.waits = Len(innerLog))
    /\ [][CancelledDuringWait =>
            \/ UNCHANGED callVars
            \/ /\ depth' = 2
               /\ phase' = "ret"
               /\ err' = CtxErr
               /\ err' # lastErr
               /\ IsHubSpotError(lastErr)
               /\ resp' = lastResp
               /\ lastResp = Last(innerLog).resp
               /\ innerLog' = innerLog
               /\ obs' = obs]_vars

C13_Witness ==
    /\ phase = "done"
    /\ config.Retry.Enabled
    /\ config.Retry.MaxAttempts = 3
    /\ ctx = "canceled"
    /\ ~obs.cancelledAtWait
    /\ err = CtxErr
    /\ Len(innerLog) = 1
    /\ resp = innerLog[1].resp
    /\ resp.StatusCode = 500
    /\ obs.httpCalls = 1

\* the attempts of the call that completed a transport round trip
Completed == {i \in 1..Len(innerLog) : ~innerLog[i].resp.nil}

\* the response of the most recent attempt that completed a round trip
LastCompleted ==
    innerLog[CHOOSE i \in Completed : \A j \in Completed : j <= i].resp

\* the limiter's daily fields are those of the RateLimitInfo of r
FedBack(r) ==
    /\ rateLimiter.dailyRemaining = r.RateLimit.DailyRemaining
    /\ rateLimiter.dailyLimit = r.RateLimit.DailyLimit

\* C14: with rate limiting enabled, after every completed transport call
\* (success or HTTP error status, intermediate attempts of a retried call
\* included) the limiter's daily-remaining and daily-limit are those of that
\* response's RateLimitInfo before a later attempt is started and before Do
\* returns, so before any later call is admitted.
C14_FeedbackAfterEveryTransportCall ==
    (config.RateLimit.Enabled /\ Completed # {}) =>
        /\ Stage = "http" => FedBack(LastCompleted)
        /\ phase = "done" => FedBack(LastCompleted)

\* the daily fields of a limiter
DailyFields(rl) == << rl.dailyRemaining, rl.dailyLimit >>

\* C15: the limiter's daily-remaining and daily-limit change only in the
\* feedback update of the rate-limit handler, with a non-nil response that
\* comes from a completed transport round trip of the call, and they become the
\* values of that response's RateLimitInfo; every other step (daily-gate check,
\* token wait, pre-flight rejection, transport failure without response,
\* cancellation before submission or during the retry wait) leaves them as
\* they are.
C15_DailyFieldsChangeOnlyByFeedback ==
    [][DailyFields(rateLimiter') # DailyFields(rateLimiter) =>
          /\ config.RateLimit.Enabled
          /\ Stage = "ratelimit"
          /\ phase = "ret"
          /\ ~resp.nil
          /\ obs.roundTrips >= 1
          /\ resp \in {innerLog[i].resp : i \in Completed}
          /\ DailyFields(rateLimiter') =
                << resp.RateLimit.DailyRemaining, resp.RateLimit.DailyLimit >>
          /\ rateLimiter'.tokens = rateLimiter.tokens
          /\ obs'.updates = obs.updates + 1]_vars

C15_Witness ==
    /\ config.RateLimit.Enabled
    /\ config.Retry.Enabled
    /\ phase = "done"
    /\ DailyFields(rateLimiter) = << 4, 5 >>
    /\ obs.dailyAtDo = 4
    /\ obs.roundTrips = 2
    /\ obs.updates = 0
    /\ Completed = {1}
    /\ err = TransportErr("network")

\* the Authorization values the caller attached to the Request, in any letter case
CallerAuthorization ==
    {req.Headers[k] : k \in {x \in HeaderKeys : Canonical(x) = "Authorization"}} \ {<< >>}

\* C16: when a credential is configured, every request put on the wire carries
\* an Authorization header whose value is exactly "Bearer <token>", whatever
\* headers the caller attached (a caller-supplied Authorization header in any
\* letter case included); when no credential is configured the pipeline adds
\* no Authorization header: the request carries the caller's own or none.
C16_BearerOnTheWire ==
    wire.sent =>
        IF config.AccessToken # ""
        THEN wire.headers["Authorization"] = Bearer(config.AccessToken)
        ELSE IF CallerAuthorization = {}
        THEN wire.headers["Authorization"] = << >>
        ELSE wire.headers["Authorization"] \in CallerAuthorization

MuOf(p) == limiters[LimiterOf(p)].mu

\* the positions at which a call holds the write lock
Writing == {"locked", "written1", "written2"}

\* the positions of the admission step: daily gate, then the wait for a token
Admission == {"rlockWait", "rlocked", "wait"}

\* a call holds the read lock only inside CheckDailyLimit and the write lock only
\* inside UpdateFromResponse; a call that has returned holds and awaits nothing
LockDiscipline ==
    \A p \in Calls :
        /\ p \in MuOf(p).readers <=> pc[p] = "rlocked"
        /\ p \in MuOf(p).rwait <=> pc[p] = "rlockWait"
        /\ MuOf(p).writer = p <=> pc[p] \in Writing
        /\ (MuOf(p).pending = p \/ p \in Range(MuOf(p).wq)) <=> pc[p] = "lockWait"
        /\ \A c \in Clients \ {LimiterOf(p)} :
              /\ p \notin limiters[c].mu.readers \cup limiters[c].mu.rwait
              /\ p \notin {limiters[c].mu.writer, limiters[c].mu.pending}

\* C17: under any interleaving of concurrent calls sharing a client the limiter
\* never deadlocks: a call holds the read lock only inside the daily-gate check
\* and the write lock only inside the feedback update, every acquisition is
\* followed by the release, a call leaves the wait for the lock only by
\* obtaining it, and under fair scheduling every call completes its admission
\* step (so obtains and releases the read lock it requested) and every call
\* that requests the write lock obtains it, releases it and returns.
C17_LimiterNeverDeadlocks ==
    /\ []LockDiscipline
    /\ [][\A p \in Calls :
             /\ (pc[p] = "rlockWait" /\ pc'[p] # pc[p]) => pc'[p] = "rlocked"
             /\ (pc[p] = "lockWait" /\ pc'[p] # pc[p]) => pc'[p] = "locked"]_vars
    /\ \A p \in Calls :
          /\ (pc[p] \in Admission) ~> (pc[p] \in {"transport", "idle"})
          /\ (pc[p] \in Writing \cup {"lockWait"}) ~> (pc[p] = "idle")

C17_Witness ==
    \E p, q \in Calls :
        /\ LimiterOf(p) = LimiterOf(q)
        /\ p # q
        /\ pc[p] = "written1"
        /\ pc[q] = "rlockWait"
        /\ MuOf(p).writer = p
        /\ MuOf(p).rwait = {q}

\* the pairs (daily-remaining, daily-limit) a limiter can hold as a whole: the
\* pair of NewRateLimiter and the pair of each single response
WholePairs ==
    {DailyFields(NewRateLimiter(1))} \cup
    {<< r.RateLimit.DailyRemaining, r.RateLimit.DailyLimit >> : r \in LimiterResponses}

\* C18: feedback updates are atomic with respect to each other and to reads:
\* under any interleaving of concurrent calls, whenever a limiter's lock is not
\* held for writing its pair (daily-remaining, daily-limit) is the initial pair
\* or the pair of one single response, never a mix of two; no call holds the
\* read lock while a writer holds the lock, so no reader observes a
\* half-applied update; and at most the one call that holds the write lock is
\* inside the update.
C18_FeedbackAtomic ==
    /\ \A c \in Clients :
          /\ limiters[c].mu.writer = 0 => DailyFields(limiters[c].rl) \in WholePairs
          /\ limiters[c].mu.writer # 0 => limiters[c].mu.readers = {}
          /\ Cardinality({p \in Calls : LimiterOf(p) = c /\ pc[p] \in Writing}) <= 1
    /\ \A p \in Calls :
          pc[p] = "rlocked" => DailyFields(limiters[LimiterOf(p)].rl) \in WholePairs

C18_Witness ==
    \E p, q \in Calls :
        /\ p # q
        /\ LimiterOf(p) = LimiterOf(q)
        /\ pc[p] = "written1"
        /\ DailyFields(limiters[LimiterOf(p)].rl) = << 0, 5 >>
        /\ got[p].RateLimit.DailyLimit = 7
        /\ pc[q] = "lockWait"
        /\ got[q].RateLimit.DailyLimit = 5

\* C20: rate-limiter state is per client instance: a step of a call made through
\* one client (admission check, token consumption, feedback update) never
\* changes the daily-remaining, daily-limit, token bucket or lock of the limiter
\* of another client; a limiter changes only in a step of a call made through
\* its own client, or by the refill of its own bucket as time passes.
C20_LimitersIsolated ==
    [][\A c \in Clients :
          limiters'[c] # limiters[c] =>
              \/ /\ \E p \in Calls : via[p] = c /\ pc'[p] # pc[p]
                 /\ \A q \in Calls : pc'[q] # pc[q] => via[q] = c
              \/ /\ pc' = pc
                 /\ limiters'[c] = [limiters[c] EXCEPT !.rl.tokens = @ + 1]]_vars

C20_Witness ==
    /\ DailyFields(limiters["a"].rl) = << 4, 5 >>
    /\ DailyFields(limiters["b"].rl) = << 0, 7 >>
    /\ limiters["a"].rl.tokens = 0
    /\ limiters["b"].rl.tokens = 1
    /\ \E p, q \in Calls :
          /\ via[p] = "a"
          /\ via[q] = "b"
          /\ pc[p] = "transport"
          /\ pc[q] = "rlocked"


\* ---------------------------------------------------------------------
\* C21: the limiter's daily-remaining counter never increases: no step of
\* any call (admission or feedback) on a client makes the client's
\* dailyRemaining larger than it was.
\* The code stores whatever the response carried (UpdateFromResponse), so
\* a response reporting more than the stored value raises the counter.
C21_DailyRemainingNeverIncreases ==
    [][\A c \in Clients :
          limiters'[c].rl.dailyRemaining <= limiters[c].rl.dailyRemaining]_vars


\* ---------------------------------------------------------------------
\* C22: a client built with WithRateLimitDailyLimit(l) starts with the
\* limiter's daily-limit and daily-remaining both equal to l (the last
\* such option wins), and a client built without it starts with 250000.
\* NewClient hands only MaxBurst to NewRateLimiter, which always seeds
\* 250000: the override reaches the configuration and stops there.
DailyOverrides(opts) ==
    { i \in 1..Len(opts) : opts[i].opt = "WithRateLimitDailyLimit" }

ConfiguredDailyLimit(opts) ==
    IF DailyOverrides(opts) = {} THEN 250000
    ELSE opts[CHOOSE i \in DailyOverrides(opts) :
                 \A j \in DailyOverrides(opts) : j <= i].arg

\* C22: the limiter's daily fields start at the configured daily limit.
C22_SeededFromConfiguredDailyLimit ==
    (fin.fn = "NewClient" /\ fout # Pending)
    => /\ fout.out.rateLimiter.dailyLimit = ConfiguredDailyLimit(fin.opts)
       /\ fout.out.rateLimiter.dailyRemaining = ConfiguredDailyLimit(fin.opts)


\* ---------------------------------------------------------------------
\* C23: with rate limiting enabled and daily quota available, the call gets
\* to the retry loop and the transport only after it has taken one token
\* from the interval bucket, whose capacity is the configured burst; while
\* the bucket is empty and the context is live the call stays blocked; and
\* a call that ends without a token (the burst being at least one) ends
\* with the context's error, a nil response and no transport invocation.
C23_Admitted ==
    (config.RateLimit.Enabled /\ phase # "idle" /\ obs.dailyAtDo > 0) =>
        /\ rateLimiter.burst = config.RateLimit.MaxBurst
        /\ rateLimiter.tokens \in 0..rateLimiter.burst
        /\ obs.admitted \in {0, 1}
        /\ Stage \in {"retry", "http"} => obs.admitted = 1
        /\ obs.httpCalls > 0 => obs.admitted = 1
        /\ (CallOver /\ obs.admitted = 0 /\ rateLimiter.burst >= 1) =>
              /\ ctx = "canceled"
              /\ err = CtxErr
              /\ resp = NilResp
              /\ obs.httpCalls = 0
              /\ obs.roundTrips = 0

C23_TokenStep ==
    /\ obs'.admitted = obs.admitted + 1 =>
          /\ rateLimiter.tokens > 0
          /\ rateLimiter'.tokens = rateLimiter.tokens - 1
    /\ (phase = "blocked" /\ rateLimiter.tokens = 0 /\ ctx = "active") =>
          phase' = "blocked"
    /\ (phase = "blocked" /\ phase' # "blocked" /\ obs'.admitted = obs.admitted) =>
          /\ ctx = "canceled"
          /\ err' = CtxErr
          /\ resp' = NilResp

C23_WaitedThenAdmitted ==
    /\ config.RateLimit.Enabled
    /\ obs.admitted = 1
    /\ obs.httpCalls = 1
    /\ rateLimiter.tokens = 0


\* ---------------------------------------------------------------------
\* C24: ExtractRateLimitInfo gives each of Max, Remaining, IntervalMs,
\* DailyLimit and DailyRemaining the integer its header spells when the
\* header is there and is a number, and the field's default otherwise:
\* 10000 for IntervalMs and 0 for the other four.
FieldHeader ==
    [ Max            |-> "X-HubSpot-RateLimit-Max",
      Remaining      |-> "X-HubSpot-RateLimit-Remaining",
      IntervalMs     |-> "X-HubSpot-RateLimit-Interval-Milliseconds",
      DailyLimit     |-> "X-HubSpot-RateLimit-Daily",
      DailyRemaining |-> "X-HubSpot-RateLimit-Daily-Remaining" ]

FieldDefault ==
    [ Max |-> 0, Remaining |-> 0, IntervalMs |-> 10000,
      DailyLimit |-> 0, DailyRemaining |-> 0 ]

\* the header values that spell an integer, with the integer
Spelled == { << <<"0">>, 0 >>, << <<"7">>, 7 >>, << <<"-", "5">>, -5 >> }

C24_FieldsFromHeaders ==
    (fin.fn = "ExtractRateLimitInfo" /\ fout # Pending) =>
        \A f \in DOMAIN FieldHeader :
            LET str == fin.headers[FieldHeader[f]]
            IN  /\ \A sp \in Spelled : str = sp[1] => fout.out[f] = sp[2]
                /\ (\A sp \in Spelled : str # sp[1]) => fout.out[f] = FieldDefault[f]

\* some headers numeric, one unparseable, the interval header absent
C24_Witness ==
    /\ fin.fn = "ExtractRateLimitInfo"
    /\ fout # Pending
    /\ fin.headers["X-HubSpot-RateLimit-Max"] = <<"7">>
    /\ fin.headers["X-HubSpot-RateLimit-Remaining"] = <<"5", "x">>
    /\ fin.headers["X-HubSpot-RateLimit-Interval-Milliseconds"] = << >>
    /\ fin.headers["X-HubSpot-RateLimit-Daily-Remaining"] = <<"-", "5">>
    /\ fout.out.Max = 7
    /\ fout.out.Remaining = 0
    /\ fout.out.IntervalMs = 10000
    /\ fout.out.DailyRemaining = -5


\* ---------------------------------------------------------------------
\* C25: with retry disabled the retry layer invokes the inner handler once
\* and hands back what it returned: there is at most one inner invocation
\* per call, no backoff wait, and once the inner handler has returned, the
\* response and the error travelling back to the caller are the ones it
\* returned, a retryable 500 included.
C25_DisabledRetryPassesThrough ==
    (~config.Retry.Enabled) =>
        /\ obs.httpCalls <= 1
        /\ Len(innerLog) <= 1
        /\ obs.waits = 0
        /\ phase \notin {"backoff", "panic"}
        /\ req.RetryCount = 0
        /\ (phase = "done" /\ "retry" \in Range(order)) => Len(innerLog) = 1
        /\ Len(innerLog) = 1 =>
              /\ obs.httpCalls = 1
              /\ Stage \in {"none", "auth", "ratelimit"}
              /\ phase \in {"ret", "done"}
              /\ resp = innerLog[1].resp
              /\ err = innerLog[1].err

\* a call with retry disabled whose single attempt was a retryable 500
C25_Witness ==
    /\ ~config.Retry.Enabled
    /\ config.Retry.MaxAttempts > 1
    /\ phase = "done"
    /\ Len(innerLog) = 1
    /\ RetryableFailure(innerLog[1])
    /\ innerLog[1].err.Status = 500
    /\ err = innerLog[1].err
    /\ ~resp.nil
    /\ obs.httpCalls = 1


\* ---------------------------------------------------------------------
\* C26: ParseContactError turns a classified error with status 404 into a
\* ContactNotFoundError holding the contact id it was given, one with
\* status 400 and category VALIDATION_ERROR into a ContactValidationError,
\* one with status 409 into a ContactAlreadyExistsError, each with the
\* classified error as Original; any other error, classified or not, comes
\* back as it went in.
C26_ContactErrorByStatus ==
    (fin.fn = "ParseContactError" /\ fout # Pending) =>
        LET e == fin.err
            o == fout.out
            classified == e.kind = "hubspot"
        IN  IF classified /\ e.Status = 404
            THEN /\ o.kind = "ContactNotFoundError"
                 /\ o.ContactID = fin.contactID
                 /\ o.Original = e
            ELSE IF classified /\ e.Status = 400 /\ e.Category = "VALIDATION_ERROR"
            THEN o.kind = "ContactValidationError" /\ o.Original = e
            ELSE IF classified /\ e.Status = 409
            THEN o.kind = "ContactAlreadyExistsError" /\ o.Original = e
            ELSE o = e

\* a 400 of another category, returned as it is
C26_Witness ==
    /\ fin.fn = "ParseContactError"
    /\ fout # Pending
    /\ fin.err.kind = "hubspot"
    /\ fin.err.Status = 400
    /\ fin.err.Category = "OTHER_ERROR"
    /\ fin.contactID = "12345"
    /\ fout.out = fin.err

\* a 404, wrapped with the contact id
C26_NotFoundWrapped ==
    /\ fin.fn = "ParseContactError"
    /\ fout # Pending
    /\ fin.err.kind = "hubspot"
    /\ fin.err.Status = 404
    /\ fout.out.kind = "ContactNotFoundError"
    /\ fout.out.ContactID = "12345"


\* ---------------------------------------------------------------------
\* C27: calculateBackoffDuration always returns a duration, and when there
\* is no positive wait hint and the backoff before jitter, initial-backoff
\* times 2^attempt as the code computes it, is zero or negative, the
\* duration it returns is zero.
\* The code asks rand.Int63n for a number below backoff / 10, which panics
\* when that bound is not positive.
NonPositiveBeforeJitter ==
    /\ fin.retryAfter <= 0
    /\ \A p \in Pow2Duration(fin.attempt) : MulWrap(p, fin.cfg.InitialBackoff) <= 0

\* C27: no panic, and a zero duration when the backoff before jitter is
\* zero or negative.
C27_NonPositiveBackoffIsZero ==
    (fin.fn = "calculateBackoffDuration" /\ fout # Pending) =>
        /\ ~fout.out.panic
        /\ NonPositiveBeforeJitter => fout.out.d = 0


\* ---------------------------------------------------------------------
\* C28: the wait hint of a classified error is never negative, and a
\* Retry-After that is a date not later than now gives a hint of zero.
\* The code stores time.Until(date) and seconds * time.Second as they are:
\* a date in the past and a negative number of seconds give negative hints.
C28_HintNeverNegative ==
    (fin.fn = "ParseHubSpotError" /\ fout # Pending) =>
        LET date == ParseRFC1123(fin.headers["Retry-After"])
        IN  /\ fout.out.RetryAfter >= 0
            /\ (date.ok /\ date.val <= fin.now) => fout.out.RetryAfter = 0


\* ---------------------------------------------------------------------
\* C29: a call the rate limiter has not admitted never gets to the retry
\* layer: it has no backoff wait, no inner or transport invocation and one
\* look at the daily gate at most, and it ends with a nil response and the
\* rejection (the daily-limit error, the context's error or the limiter's
\* burst error), whatever the retry configuration is.
C29_RejectionNotRetried ==
    (config.RateLimit.Enabled /\ obs.admitted = 0) =>
        /\ obs.waits = 0
        /\ obs.httpCalls = 0
        /\ obs.roundTrips = 0
        /\ obs.dailyChecks <= 1
        /\ innerLog = << >>
        /\ "retry" \notin Range(order)
        /\ phase \notin {"backoff", "panic"}
        /\ phase = "done" =>
              /\ resp = NilResp
              /\ err \in {DailyLimitErr, CtxErr, BurstErr}

\* a failed token acquisition with retry enabled and attempts to spare
C29_Witness ==
    /\ config.RateLimit.Enabled
    /\ config.Retry.Enabled
    /\ config.Retry.MaxAttempts > 1
    /\ phase = "done"
    /\ obs.dailyChecks = 1
    /\ obs.admitted = 0
    /\ err = BurstErr
    /\ obs.waits = 0
    /\ obs.httpCalls = 0

\* a daily-gate rejection with retry enabled and attempts to spare
C29_DailyRejection ==
    /\ config.RateLimit.Enabled
    /\ config.Retry.Enabled
    /\ config.Retry.MaxAttempts > 1
    /\ phase = "done"
    /\ obs.admitted = 0
    /\ err = DailyLimitErr
    /\ obs.waits = 0


\* ---------------------------------------------------------------------
\* C30: with retry enabled, whenever the inner handler is entered the
\* Request's RetryCount is the number of inner invocations made before
\* (0 for the first, 1 for the second, ...); RetryCount is 0 until the first
\* invocation; and the only steps that change it are steps of the retry
\* handler (building the next call's Request aside).
C30_CountAtInvocation ==
    /\ (obs.httpCalls = 0 /\ innerLog = << >>) => req.RetryCount = 0
    /\ (config.Retry.Enabled /\ Stage = "http" /\ phase = "call") =>
          /\ req.RetryCount = obs.httpCalls
          /\ req.RetryCount = Len(innerLog)
    /\ (config.Retry.Enabled /\ Stage = "http" /\ phase = "inflight") =>
          req.RetryCount = obs.httpCalls - 1

C30_CountStep ==
    (req'.RetryCount # req.RetryCount) => (Stage = "retry" \/ phase' = "idle")

\* C30: at the i-th invocation of the inner handler RetryCount is i, it is
\* 0 before the first, and only the retry handler writes it.
C30_RetryCountIsAttemptIndex == [] C30_CountAtInvocation /\ [][C30_CountStep]_vars

\* the third invocation of the inner handler with the counter at 2
C30_Witness ==
    /\ config.Retry.Enabled
    /\ Stage = "http"
    /\ phase = "call"
    /\ obs.httpCalls = 2
    /\ req.RetryCount = 2


-----------------------------------------------------------------------------
(* logging.go: the Logger, and its specification: a Logger is constructed
   and then one of its print methods is called *)

MaxOutputs == 2

\* the io.Writers a caller can hand over, and os.Stdout
Writers == {"w1", "w2"}
Stdout == "stdout"

LogMethods == {"Printf", "Println", "Print"}
LogMessages == {"", "hello"}

\* NewLogger: one log.Logger per output, or one on os.Stdout; the composite
\* literals of the enabled branches leave the enabled field at its zero value
NewLogger(enabled, outputs) ==
    IF ~enabled THEN [loggers |-> << >>, enabled |-> FALSE]
    ELSE IF Len(outputs) > 0 THEN [loggers |-> outputs, enabled |-> FALSE]
    ELSE [loggers |-> << Stdout >>, enabled |-> FALSE]

NothingWritten == [w \in Writers \cup {Stdout} |-> << >>]

\* for _, logger := range l.loggers { logger.Printf(...) }
RECURSIVE WriteAll(_, _, _)
WriteAll(loggers, written, line) ==
    IF loggers = << >> THEN written
    ELSE WriteAll(Tail(loggers),
                  [written EXCEPT ![Head(loggers)] = Append(@, line)],
                  line)

\* Logger.Printf, Println and Print
LoggerPrint(l, written, method, msg) ==
    IF l.enabled THEN WriteAll(l.loggers, written, [method |-> method, msg |-> msg])
    ELSE written

LoggerInputs ==
    [ fn : {"Logger"},
      enabled : BOOLEAN,
      outputs : UNION { [1..n -> Writers] : n \in 0..MaxOutputs },
      method : LogMethods,
      msg : LogMessages ]

InitLogger ==
    /\ InitClient(NewConfig)
    /\ fin \in LoggerInputs
    /\ fout = Pending

LogNew ==
    /\ fin.fn = "Logger"
    /\ fout = Pending
    /\ fout' = [ status |-> "constructed",
                 logger |-> NewLogger(fin.enabled, fin.outputs),
                 written |-> NothingWritten ]
    /\ UNCHANGED << config, rateLimiter, ctx, callVars, fin, limVars >>

LogCall ==
    /\ fin.fn = "Logger"
    /\ fout.status = "constructed"
    /\ fout' = [fout EXCEPT !.status = "printed",
                            !.written = LoggerPrint(fout.logger, @, fin.method, fin.msg)]
    /\ UNCHANGED << config, rateLimiter, ctx, callVars, fin, limVars >>

NextLogger == LogNew \/ LogCall

SpecLogger == InitLogger /\ [][NextLogger]_vars

-----------------------------------------------------------------------------
(* Specification of the feedback of concurrent calls of one client: each call
   is made once; the server answers the requests one after the other, and a
   call takes the limiter's lock some time after its answer was produced *)

\* the calls the server has answered
Served == { q \in Calls : ~got[q].nil }

\* the k-th answer of the server: its own count of the day's quota
FbAnswer(k) ==
    [nil |-> FALSE, RateLimit |-> [DailyLimit |-> 5, DailyRemaining |-> 5 - k]]

\* httpMiddleware returns: the server has produced the answer, or the
\* transport has failed
FbRespond(p) ==
    /\ pc[p] = "transport"
    /\ \/ /\ got' = [got EXCEPT ![p] = FbAnswer(Cardinality(Served) + 1)]
          /\ pc' = [pc EXCEPT ![p] = "received"]
       \/ /\ pc' = [pc EXCEPT ![p] = "over"]
          /\ UNCHANGED got
    /\ UNCHANGED << config, rateLimiter, ctx, callVars, fin, fout, limiters, via >>

\* the response has travelled back through the retry handler;
\* UpdateFromResponse: rl.mu.Lock()
FbLock(p) ==
    /\ pc[p] = "received"
    /\ LET c == LimiterOf(p)
           mu == limiters[c].mu
       IN  IF mu.writer = 0 /\ mu.pending = 0
           THEN limiters' = [limiters EXCEPT ![c].mu.pending = p]
           ELSE limiters' = [limiters EXCEPT ![c].mu.wq = Append(@, p)]
    /\ pc' = [pc EXCEPT ![p] = "lockWait"]
    /\ UNCHANGED << config, rateLimiter, ctx, callVars, fin, fout, got, via >>

\* UpdateFromResponse: the deferred rl.mu.Unlock(); Do returns
FbUnlock(p) ==
    /\ pc[p] = "written2"
    /\ LET c == LimiterOf(p)
           mu == limiters[c].mu
       IN  /\ limiters' = [limiters EXCEPT ![c].mu = Unlock(@)]
           /\ pc' = [q \in Calls |-> IF q = p THEN "over"
                                     ELSE IF q \in mu.rwait THEN "rlocked"
                                     ELSE pc[q]]
    /\ UNCHANGED << config, rateLimiter, ctx, callVars, fin, fout, got, via >>

InitFeedback ==
    /\ InitClient(NewConfig)
    /\ fin = NoInput
    /\ fout = Pending

NextFeedback ==
    \/ \E p \in Calls : LimStart(p)
    \/ \E p \in Calls : LimCheck(p)
    \/ \E p \in Calls : LimWait(p)
    \/ \E p \in Calls : FbRespond(p)
    \/ \E p \in Calls : FbLock(p)
    \/ \E p \in Calls : LimLockGranted(p)
    \/ \E p \in Calls : LimWriteRemaining(p)
    \/ \E p \in Calls : LimWriteLimit(p)
    \/ \E p \in Calls : FbUnlock(p)

SpecFeedback == InitFeedback /\ [][NextFeedback]_vars

-----------------------------------------------------------------------------
(* Claims about the Request's frame, feedback order, the daily gate over
   repeated calls, disabled rate limiting and termination *)

\* the Request without its attempt counter
Frame(r) == [r EXCEPT !.RetryCount = 0]

\* C31: from the moment the transport handler is entered for the first time
\* until Do returns, no step changes a field of the Request other than
\* RetryCount.
\* httpMiddleware calls req.AddHeader("Content-Type", ...) on the caller's
\* Request whenever there is a body, inside the transport attempt.
C31_OnlyRetryCountChanges ==
    [][ ((Stage = "http" \/ obs.httpCalls >= 1) /\ phase # "done")
            => Frame(req') = Frame(req) ]_vars


\* ---------------------------------------------------------------------
\* C32: when the concurrent calls of a client are all over and the server
\* has answered at least one of them, the limiter's daily-remaining and
\* daily-limit are those of the answer the server produced last.
\* The updates are applied in the order the calls reach rl.mu.Lock(), which
\* need not be the order of the answers: the writer that comes last wins.
C32_LastAnswerWins ==
    ((\A p \in Calls : pc[p] = "over") /\ Served # {}) =>
        /\ limiters["a"].rl.dailyRemaining = FbAnswer(Cardinality(Served)).RateLimit.DailyRemaining
        /\ limiters["a"].rl.dailyLimit = FbAnswer(Cardinality(Served)).RateLimit.DailyLimit


\* the outputs a Logger built from the given ones writes to
ConfiguredOutputs(outputs) == IF outputs = << >> THEN << Stdout >> ELSE outputs

\* ---------------------------------------------------------------------
\* C33: after one Printf, Println or Print on a Logger built with enabled
\* true, each configured output (standard output when none was given) holds
\* the line, once for each time it was configured; on a Logger built with
\* enabled false no output holds anything.
\* NewLogger never sets the enabled field, so every Logger is silent.
C33_EnabledLoggerWrites ==
    (fin.fn = "Logger" /\ fout # Pending /\ fout.status = "printed") =>
        \A w \in Writers \cup {Stdout} :
            LET outs == ConfiguredOutputs(fin.outputs)
                times == Cardinality({ i \in 1..Len(outs) : outs[i] = w })
            IN  /\ Len(fout.written[w]) = IF fin.enabled THEN times ELSE 0
                /\ \A i \in 1..Len(fout.written[w]) :
                       fout.written[w][i] = [method |-> fin.method, msg |-> fin.msg]


\* ---------------------------------------------------------------------
\* C34: when Do has returned a nil error, it has returned a response, the
\* transport was invoked and answered, and the response's status is below
\* 400, in every configuration.
\* With retry enabled and max-attempts <= 0 the loop body never runs and the
\* retry handler returns its zero-valued lastResp and lastErr: nil, nil.
C34_NilErrorMeansResponse ==
    (phase = "done" /\ err.kind = "nil") =>
        /\ ~resp.nil
        /\ obs.httpCalls >= 1
        /\ obs.roundTrips >= 1
        /\ resp.StatusCode < 400


\* a response whose daily fields are the extraction defaults: of the server's
\* answers, the one without the daily headers
NoDailyHeaders(r) ==
    ~r.nil /\ r.RateLimit.DailyLimit = 0 /\ r.RateLimit.DailyRemaining = 0

\* ---------------------------------------------------------------------
\* C35: with rate limiting enabled, when Do has returned a response without
\* daily headers the limiter's daily-remaining and daily-limit are 0; they
\* stay so until the next call is made; and a call made with daily-remaining
\* at 0 ends with the daily-limit error, a nil response and no transport
\* invocation.
C35_AfterHeaderless ==
    config.RateLimit.Enabled =>
        /\ (phase = "done" /\ NoDailyHeaders(resp)) =>
              /\ rateLimiter.dailyRemaining = 0
              /\ rateLimiter.dailyLimit = 0
        /\ (phase = "done" /\ obs.dailyAtDo = 0) =>
              /\ err = DailyLimitErr
              /\ resp = NilResp
              /\ obs.httpCalls = 0
              /\ obs.roundTrips = 0

C35_BetweenCalls ==
    (phase \in {"done", "idle"}) =>
        /\ rateLimiter'.dailyRemaining = rateLimiter.dailyRemaining
        /\ rateLimiter'.dailyLimit = rateLimiter.dailyLimit
        /\ phase' = "call" => obs'.dailyAtDo = rateLimiter.dailyRemaining

C36_ExhaustionAbsorbing ==
    [][ \A c \in Clients :
          limiters[c].rl.dailyRemaining <= 0 =>
              /\ limiters'[c].rl.dailyRemaining = limiters[c].rl.dailyRemaining
              /\ \A p \in Calls :
                    (LimiterOf(p) = c /\ pc[p] = "rlocked") =>
                        pc'[p] \in {"rlocked", "idle"} ]_vars


\* ---------------------------------------------------------------------
\* C37: with rate limiting disabled the limiter stays as NewRateLimiter
\* made it (full bucket, daily fields untouched), the daily gate is never
\* looked at, no token is taken, no response is fed back, and the call goes
\* on to the retry handler and, when that makes an attempt, to the transport.
C37_DisabledLimiterUntouched ==
    (~config.RateLimit.Enabled) =>
        /\ rateLimiter = NewRateLimiter(config.RateLimit.MaxBurst)
        /\ obs.dailyChecks = 0
        /\ obs.admitted = 0
        /\ obs.updates = 0
        /\ phase \notin {"acquire", "blocked"}
        /\ (phase = "done" /\ (config.Retry.Enabled => config.Retry.MaxAttempts >= 1)) =>
              obs.httpCalls >= 1

\* a call through a client with rate limiting disabled and a burst of 0 has
\* had its response, and the limiter is as it was built
C37_Witness ==
    /\ ~config.RateLimit.Enabled
    /\ config.RateLimit.MaxBurst = 0
    /\ phase = "done"
    /\ ~resp.nil
    /\ resp.RateLimit.DailyRemaining = 4
    /\ obs.roundTrips = 1
    /\ rateLimiter.dailyRemaining = 250000
    /\ rateLimiter.tokens = 0


\* ---------------------------------------------------------------------
\* C38: a call is never aborted, and with retry enabled it makes at most
\* max-attempts transport invocations and at most max-attempts - 1 backoff
\* waits (none of either when max-attempts <= 0); with retry disabled it
\* makes at most one invocation and no wait. Every wait and every transport
\* invocation being finite, Do returns.
\* calculateBackoffDuration panics when the backoff before jitter is below
\* ten nanoseconds: the goroutine unwinds and Do does not return.
C38_ReturnsWithinBounds ==
    /\ phase # "panic"
    /\ config.Retry.Enabled =>
          /\ obs.httpCalls <= IF config.Retry.MaxAttempts > 0
                              THEN config.Retry.MaxAttempts ELSE 0
          /\ obs.waits <= IF config.Retry.MaxAttempts > 1
                          THEN config.Retry.MaxAttempts - 1 ELSE 0
    /\ ~config.Retry.Enabled => obs.httpCalls <= 1 /\ obs.waits = 0

====
